---- MODULE Spec2Model ----
(***************************************************************************)
(* Model of the guild synchronisation engine: GuildSyncService (two-tier   *)
(* scheduler, guild discovery, active character sync), the parts of        *)
(* ExternalApiService it calls (roster, profile fallback, activity check)  *)
(* and the PrismaService persistence operations on the guild_members       *)
(* table.  Every await of the JavaScript code is a step boundary: one      *)
(* action runs from one await to the next.                                 *)
(***************************************************************************)
EXTENDS Integers, Sequences, FiniteSets, TLC

(***************************************************************************)
(* Bounds of the model.                                                    *)
(***************************************************************************)
MaxCalls == 2        \* invocations of one run method that may be in progress
MaxRuns == 3         \* triggers (cron ticks, start(), direct calls) that arrive
Now == 100           \* Date.now(), in time units
Day == 2             \* time units per day (the code counts milliseconds)
MaxBatch == 60       \* members in the batch of an Enrichment run (SpecAlert)
MaxTokens == 3       \* tokens the OAuth endpoint issues (SpecToken)
MaxRequests == 4     \* calls to the Blizzard API (SpecToken, SpecRate)
MaxClock == 20       \* units of 100 ms that pass (SpecRate, SpecSequence)
MaxChecks == 2       \* members of a member loop (SpecRate, SpecSequence)
MaxMails == 6        \* calls of sendSyncErrorNotification (SpecThrottle)
MaxMailClock == 4    \* units of 5 minutes that pass (SpecThrottle)

(***************************************************************************)
(* Values.                                                                 *)
(***************************************************************************)
NULL == -1           \* SQL NULL / JavaScript null of a numeric field
UNDEF == -2          \* JavaScript undefined: Prisma leaves the column alone
NoProgress == "null"         \* null raid_progress
UndefProgress == "undefined" \* undefined raid_progress
FAIL == -3           \* the answer of a request that threw

ActiveDays == 30     \* getLastLoginTimestamp: daysSince <= 30 is active
BlizzardInterval == 15   \* config.guild.rateLimit.blizzard: 1500 ms
ActivitySleep == 2       \* bulkCheckActivity: sleep(200)
SyncWindowDays == 30 \* runActiveCharacterSync: getActiveCharacters(30)

Tiers == {"discovery", "enrichment"}
Calls == 1..MaxCalls

\* The characters the roster provider may report, in the provider's order.
GuildCharacters ==
  << [name |-> "A", realm |-> "r1"],
     [name |-> "A", realm |-> "r2"],
     [name |-> "B", realm |-> "r1"] >>

Range(f) == {f[x] : x \in DOMAIN f}

Identities == Range(GuildCharacters)

\* ExternalApiService.getMembers: the rosters a fetch may return.
RosterSets ==
  {{}, {GuildCharacters[1]}, {GuildCharacters[2]},
   {GuildCharacters[1], GuildCharacters[3]}}
Rosters ==
  {SelectSeq(GuildCharacters, LAMBDA m : m \in S) : S \in RosterSets}

\* last_login_timestamp values the profile endpoint may report.
LoginStamps == {Now - 10 * Day, Now - 31 * Day}

Key(row) == [name |-> row.character_name, realm |-> row.realm]

OrZero(x) == IF x = UNDEF \/ x = NULL THEN 0 ELSE x   \* JavaScript x || 0

(***************************************************************************)
(* PrismaService: the guild_members table is a set of rows.                *)
(***************************************************************************)
\* prisma.guildMember.upsert, create branch (columns not given take the
\* schema default).
CreateRow(member) ==
  [character_name |-> member.name,
   realm |-> member.realm,
   item_level |-> IF member.item_level = UNDEF THEN NULL ELSE member.item_level,
   mythic_plus_score |->
     IF member.mythic_plus_score = UNDEF THEN NULL ELSE member.mythic_plus_score,
   current_pvp_rating |-> OrZero(member.current_pvp_rating),
   raid_progress |->
     IF member.raid_progress = UndefProgress THEN NoProgress
     ELSE member.raid_progress,
   last_login_timestamp |-> NULL,
   activity_status |-> "inactive"]

\* prisma.guildMember.upsert, update branch (an undefined value is skipped).
UpdateRow(row, member) ==
  [row EXCEPT
     !.item_level = IF member.item_level = UNDEF THEN @ ELSE member.item_level,
     !.mythic_plus_score =
       IF member.mythic_plus_score = UNDEF THEN @ ELSE member.mythic_plus_score,
     !.current_pvp_rating = OrZero(member.current_pvp_rating),
     !.raid_progress =
       IF member.raid_progress = UndefProgress THEN @ ELSE member.raid_progress]

Matching(table, member) ==
  {r \in table : r.character_name = member.name /\ r.realm = member.realm}

\* PrismaService.upsertGuildMember, keyed by (character_name, realm).
UpsertGuildMember(table, member) ==
  IF Matching(table, member) = {}
  THEN table \cup {CreateRow(member)}
  ELSE {IF r \in Matching(table, member) THEN UpdateRow(r, member) ELSE r :
          r \in table}

\* PrismaService.getAllMemberNames: the character_name column only.
GetAllMemberNames(table) == {r.character_name : r \in table}

\* PrismaService.removeDepartedMembers: deleteMany where character_name in.
RemoveDepartedMembers(table, departedMemberNames) ==
  {r \in table : r.character_name \notin departedMemberNames}

\* PrismaService.logSyncError: one row is created in sync_errors.
LogSyncError(table, characterName, realm) ==
  Append(table, [character_name |-> characterName, realm |-> realm])

\* The member object Discovery passes to upsertGuildMember: a roster entry
\* carries name, realm, level, class and character_api_url, no performance
\* field.
RosterMember(m) ==
  [name |-> m.name, realm |-> m.realm,
   item_level |-> UNDEF, mythic_plus_score |-> UNDEF,
   current_pvp_rating |-> UNDEF, raid_progress |-> UndefProgress]

(***************************************************************************)
(* State.                                                                  *)
(***************************************************************************)
VARIABLES
  isRunning,                \* this.isRunning
  isGuildDiscoveryRunning,  \* this.isGuildDiscoveryRunning
  isActiveSyncRunning,      \* this.isActiveSyncRunning
  startPc,                  \* position of start()
  startupCall,              \* the runGuildDiscovery call start() awaits
  cronActive,               \* both cron jobs are started and not stopped
  proc,                     \* the process: "up", "stopping" (stop() was called),
                            \* "exited" (process.exit, only after gracefulShutdown)
  db,                       \* guild_members rows
  syncErrors,               \* sync_errors rows, in the order of their creation
  api,                      \* ExternalApiService: the cached Blizzard token and
                            \* one getMemberFromBlizzard call
  disc,                     \* runGuildDiscovery invocations
  enr,                      \* runActiveCharacterSync invocations
  arrived,                  \* per tier: triggers that arrived
  arrivedIdle,              \* per tier: of those, the ones with no run active
  arrivedLive,              \* per tier: of the latter, not skipped as stopped
  runsStarted,              \* per tier: runs started so far
  lastRoster,               \* identities of the latest fetched roster
  prevRoster                \* identities of the roster fetched before it

sched == <<isRunning, isGuildDiscoveryRunning, isActiveSyncRunning, startPc,
           startupCall, cronActive, proc>>
rosters == <<lastRoster, prevRoster>>
counters == <<arrived, arrivedIdle, arrivedLive, runsStarted>>
ghost == <<counters, rosters>>
vars == <<sched, db, syncErrors, api, disc, enr, ghost>>

\* Local state of one invocation; data is the record getMember returned.
NoData ==
  [item_level |-> UNDEF, mythic_plus_score |-> UNDEF,
   current_pvp_rating |-> UNDEF, raid_progress |-> UndefProgress,
   pvp_2v2_rating |-> UNDEF, pvp_3v3_rating |-> UNDEF,
   pvp_rbg_rating |-> UNDEF, achievement_points |-> UNDEF,
   solo_shuffle_rating |-> UNDEF, source |-> "none"]

\* The answers of the bracket and achievement requests when every one of
\* them failed.
NoBrackets ==
  [r2v2 |-> FAIL, r3v3 |-> FAIL, rbg |-> FAIL, solo |-> FAIL, points |-> FAIL]

\* The progress of a runActiveCharacterSync call: its position, the loop
\* index i, this.syncProgress (current, total), errorCount, whether global.io
\* is set, and the events emitted to it.
IdleSync ==
  [pc |-> "idle", i |-> 0, current |-> 0, total |-> 0, errorCount |-> 0,
   io |-> FALSE, events |-> <<>>]

\* EmailService with Mailgun configured: Date.now() in units of 5 minutes,
\* the calls made, the calls awaiting mg.messages.create, the entries of
\* errorThrottle per timestamp, and the emails Mailgun accepted per time.
MailTimes == 0..MaxMailClock
NewEmailService ==
  [now |-> 0, calls |-> 0, sending |-> 0,
   errorThrottle |-> [t \in MailTimes |-> 0],
   sent |-> [t \in MailTimes |-> 0]]

\* The activity check of a Discovery cycle: its position, the number of
\* members, what the profile request of each member answered, the members
\* for which logger.error was called, the results of bulkCheckActivity, how
\* the updates settled, and errorCount of runGuildDiscovery.
IdleActivity ==
  [pc |-> "idle", total |-> 0, answers |-> <<>>, logged |-> {},
   results |-> <<>>, settled |-> <<>>, errorCount |-> 0]

\* One getMember call in 'auto' mode: its position, what Raider.IO and the
\* Blizzard fallback answered, the bracket answers, and the record built.
IdleFetch ==
  [pc |-> "idle", primary |-> "none", secondary |-> "none",
   brackets |-> NoBrackets, data |-> NoData]

\* A character URL is its realm and name segments (host, namespace and
\* locale are the same in every URL); NoUrl stands for null and undefined.
CharacterUrl(realmSegment, nameSegment) ==
  [realm |-> realmSegment, name |-> nameSegment]
NoUrl == CharacterUrl("", "")

\* ExternalApiService constructor: no token is cached. issued, valid and
\* rejected are the tokens the OAuth endpoint has issued, those the API still
\* accepts and those it has answered with 401; per tier, pc, token and
\* outcome are the position of the tier's Blizzard call, the token its
\* request carries and how its last call ended; calls counts the calls made.
\* clock is the time in units of 100 ms, lastRequest the time of the latest
\* request to the Blizzard API and sent the number of requests so far;
\* extras is the request of getBlizzardAchievementsAndPvP that is pending
\* (0: none), check, left and wake are the position of bulkCheckActivity,
\* the members it has still to check and the end of its sleep; member is
\* the roster member of the latest per-character call and request the URL
\* that call requested.
\* The member loop of a call of a tier: its position, the index of the
\* member, the number of members, and the time the previous member's
\* processing finished.
IdleLoop == [pc |-> "idle", i |-> 0, total |-> 0, done |-> 0]

NewApi ==
  [blizzardToken |-> NULL, issued |-> 0, valid |-> {}, rejected |-> {},
   pc |-> [t \in Tiers |-> "idle"], token |-> [t \in Tiers |-> NULL],
   outcome |-> [t \in Tiers |-> "none"], calls |-> 0,
   clock |-> 0, lastRequest |-> NULL, sent |-> 0,
   extras |-> 0, check |-> "idle", left |-> 0, wake |-> 0,
   member |-> [name |-> "", realm |-> "", character_api_url |-> NoUrl],
   request |-> [url |-> NoUrl, built |-> "none", by |-> "none"],
   run |-> [t \in Tiers |-> [c \in Calls |-> IdleLoop]],
   fetch |-> IdleFetch, sync |-> IdleSync, activity |-> IdleActivity,
   mail |-> NewEmailService]

IdleDiscovery ==
  [pc |-> "idle", members |-> <<>>, departed |-> {}, pending |-> {},
   results |-> <<>>, i |-> 0, membershipError |-> FALSE]

IdleEnrichment ==
  [pc |-> "idle", activeMembers |-> <<>>, i |-> 0, errorCount |-> 0,
   data |-> NoData, recentErrors |-> <<>>]

ActiveRuns(tier) ==
  IF tier = "discovery"
  THEN Cardinality({c \in Calls : disc[c].pc # "idle"})
  ELSE Cardinality({c \in Calls : enr[c].pc # "idle"})

FreeCall(runs) == {c \in Calls : runs[c].pc = "idle" /\
                                  \A b \in Calls : runs[b].pc = "idle" => c <= b}

\* GuildSyncService constructor; the table of a fresh installation is empty.
\* collaborators is the state of ExternalApiService and EmailService.
InitWith(collaborators) ==
  /\ isRunning = FALSE
  /\ isGuildDiscoveryRunning = FALSE
  /\ isActiveSyncRunning = FALSE
  /\ startPc = "constructed"
  /\ startupCall = 0
  /\ cronActive = FALSE
  /\ proc = "up"
  /\ db = {}
  /\ syncErrors = <<>>
  /\ api = collaborators
  /\ disc = [c \in Calls |-> IdleDiscovery]
  /\ enr = [c \in Calls |-> IdleEnrichment]
  /\ arrivedIdle = [t \in Tiers |-> 0]
  /\ arrivedLive = [t \in Tiers |-> 0]
  /\ runsStarted = [t \in Tiers |-> 0]
  /\ arrived = [t \in Tiers |-> 0]
  /\ lastRoster = {}
  /\ prevRoster = {}

\* The orchestrator on its own: no action of Spec reads or writes the state
\* of the two collaborators, which is left out of its states.
NotFollowed == <<>>
Init == InitWith(NotFollowed)

(***************************************************************************)
(* Triggers and the start of a run.                                        *)
(***************************************************************************)
\* Bookkeeping of one arriving trigger; live is FALSE for a cron tick that
\* finds the service stopped.
Arrive(tier, live) ==
  /\ arrived' = [arrived EXCEPT ![tier] = @ + 1]
  /\ arrivedIdle' =
       [arrivedIdle EXCEPT ![tier] = IF ActiveRuns(tier) = 0 THEN @ + 1 ELSE @]
  /\ arrivedLive' =
       [arrivedLive EXCEPT
          ![tier] = IF ActiveRuns(tier) = 0 /\ live THEN @ + 1 ELSE @]

\* The model lets MaxRuns triggers arrive.
TriggersLeft == arrived["discovery"] + arrived["enrichment"] < MaxRuns

\* runGuildDiscovery without its re-entrancy check.
DiscoveryAlreadyRunningMutant == FALSE

\* runGuildDiscovery, line 143: the re-entrancy check.
DiscoveryAlreadyRunning == isGuildDiscoveryRunning

\* runGuildDiscovery from its call to its first await: the check, the flag,
\* and the request for the roster is under way.
RunGuildDiscovery ==
  IF DiscoveryAlreadyRunning
  THEN UNCHANGED <<isGuildDiscoveryRunning, disc, runsStarted>>
  ELSE /\ isGuildDiscoveryRunning' = TRUE
       /\ \E c \in FreeCall(disc) :
            disc' = [disc EXCEPT ![c] = [IdleDiscovery EXCEPT !.pc = "getMembers"]]
       /\ runsStarted' = [runsStarted EXCEPT !["discovery"] = @ + 1]

\* scheduleTwoTierSync, the guild discovery cron callback: the condition
\* under which the tick is skipped.
SkipScheduledDiscovery == ~isRunning \/ isGuildDiscoveryRunning

\* The cron callback of guildDiscoveryJob.
CronGuildDiscovery ==
  /\ cronActive
  /\ TriggersLeft
  /\ Arrive("discovery", isRunning)
  /\ IF SkipScheduledDiscovery
     THEN UNCHANGED <<isGuildDiscoveryRunning, disc, runsStarted>>
     ELSE RunGuildDiscovery
  /\ UNCHANGED <<isRunning, isActiveSyncRunning, startPc, startupCall,
                 cronActive, proc, db, enr, lastRoster, prevRoster>>
  /\ UNCHANGED <<syncErrors, api>>

\* A direct call of runGuildDiscovery (runFullSync delegates to it).
DirectGuildDiscovery ==
  /\ startPc = "started"
  /\ TriggersLeft
  /\ Arrive("discovery", TRUE)
  /\ RunGuildDiscovery
  /\ UNCHANGED <<isRunning, isActiveSyncRunning, startPc, startupCall,
                 cronActive, proc, db, enr, lastRoster, prevRoster>>
  /\ UNCHANGED <<syncErrors, api>>

(***************************************************************************)
(* start(), stop() and the process.                                        *)
(***************************************************************************)
\* start() up to the first await of the initial runGuildDiscovery.
Start ==
  /\ proc = "up" /\ startPc = "constructed"
  /\ isRunning' = TRUE
  /\ Arrive("discovery", TRUE)
  /\ RunGuildDiscovery
  /\ startupCall' = CHOOSE c \in FreeCall(disc) : TRUE
  /\ startPc' = "startupDiscovery"
  /\ UNCHANGED <<isActiveSyncRunning, cronActive, proc, db, enr, lastRoster,
                 prevRoster>>
  /\ UNCHANGED <<syncErrors, api>>

\* start(): runMissingDataSync.  PrismaService has no
\* getActiveCharactersWithMissingData, so the call throws inside the try and
\* the catch logs it: no member row is touched.
RunMissingDataSync ==
  /\ startPc = "missingData"
  /\ startPc' = "schedule"
  /\ UNCHANGED <<isRunning, isGuildDiscoveryRunning, isActiveSyncRunning,
                 startupCall, cronActive, proc, db, disc, enr, ghost>>
  /\ UNCHANGED <<syncErrors, api>>

\* scheduleTwoTierSync: both jobs are created and started.
ScheduleTwoTierSync ==
  /\ startPc = "schedule"
  /\ cronActive' = TRUE
  /\ startPc' = "started"
  /\ UNCHANGED <<isRunning, isGuildDiscoveryRunning, isActiveSyncRunning,
                 startupCall, proc, db, disc, enr, ghost>>
  /\ UNCHANGED <<syncErrors, api>>

\* gracefulShutdown calling stop(): the flag is cleared and the jobs that
\* exist are stopped.
Stop ==
  /\ proc = "up" /\ startPc # "constructed"
  /\ isRunning' = FALSE
  /\ cronActive' = FALSE
  /\ proc' = "stopping"
  /\ UNCHANGED <<isGuildDiscoveryRunning, isActiveSyncRunning, startPc,
                 startupCall, db, disc, enr, ghost>>
  /\ UNCHANGED <<syncErrors, api>>

(***************************************************************************)
(* Tier A: runGuildDiscovery.                                              *)
(***************************************************************************)
\* The finally block of runGuildDiscovery; start() resumes when the call it
\* awaits returns.
DiscoveryFinally(c) ==
  /\ isGuildDiscoveryRunning' = FALSE
  /\ startPc' = IF startPc = "startupDiscovery" /\ startupCall = c
                THEN "missingData" ELSE startPc

\* handleMembershipChanges: names of the roster and the two filters.
CurrentNames(members) == {members[k].name : k \in DOMAIN members}
NewMembers(members, existingNames) ==
  {n \in CurrentNames(members) : n \notin existingNames}
\* Every persisted name taken as departed.
DepartedMembersMutant(members, existingNames) == existingNames
DepartedMembers(members, existingNames) ==
  {n \in existingNames : n \notin CurrentNames(members)}

\* The cycle goes on to the membership handling with whatever roster it
\* got, an empty one included.
DGetMembersMutant(c) ==
  /\ disc[c].pc = "getMembers"
  /\ \/ /\ disc' = [disc EXCEPT ![c].pc = "notifyCritical"]
        /\ UNCHANGED <<isGuildDiscoveryRunning, startPc, rosters>>
     \/ \E roster \in Rosters :
          /\ prevRoster' = lastRoster
          /\ lastRoster' = Range(roster)
          /\ disc' = [disc EXCEPT ![c].pc = "getAllMemberNames",
                                  ![c].members = roster]
          /\ UNCHANGED <<isGuildDiscoveryRunning, startPc>>
  /\ UNCHANGED <<isRunning, isActiveSyncRunning, startupCall, cronActive,
                 proc, db, enr, counters>>
  /\ UNCHANGED <<syncErrors, api>>

\* discoverGuildMembers: getMembers answers (or throws).
DGetMembers(c) ==
  /\ disc[c].pc = "getMembers"
  /\ \/ /\ disc' = [disc EXCEPT ![c].pc = "notifyCritical"]
        /\ UNCHANGED <<isGuildDiscoveryRunning, startPc, rosters>>
     \/ \E roster \in Rosters :
          /\ prevRoster' = lastRoster
          /\ lastRoster' = Range(roster)
          /\ IF Len(roster) = 0
             THEN /\ disc' = [disc EXCEPT ![c] = IdleDiscovery]
                  /\ DiscoveryFinally(c)
             ELSE /\ disc' = [disc EXCEPT ![c].pc = "getAllMemberNames",
                                          ![c].members = roster]
                  /\ UNCHANGED <<isGuildDiscoveryRunning, startPc>>
  /\ UNCHANGED <<isRunning, isActiveSyncRunning, startupCall, cronActive,
                 proc, db, enr, counters>>
  /\ UNCHANGED <<syncErrors, api>>

\* handleMembershipChanges: getAllMemberNames answers (or throws, which the
\* catch of handleMembershipChanges swallows).
DGetAllMemberNames(c) ==
  /\ disc[c].pc = "getAllMemberNames"
  /\ \/ disc' = [disc EXCEPT ![c].pc = "upsert",
                             ![c].pending = DOMAIN disc[c].members,
                             ![c].membershipError = TRUE]
     \/ LET departedMembers ==
              DepartedMembers(disc[c].members, GetAllMemberNames(db))
        IN IF departedMembers # {}
           THEN disc' = [disc EXCEPT ![c].pc = "removeDepartedMembers",
                                     ![c].departed = departedMembers]
           ELSE disc' = [disc EXCEPT ![c].pc = "upsert",
                                     ![c].pending = DOMAIN disc[c].members]
  /\ UNCHANGED <<sched, db, enr, ghost>>
  /\ UNCHANGED <<syncErrors, api>>

RowOf(table, m) == {r \in table : Key(r) = m}

\* A failed removeDepartedMembers rethrown into the catch of
\* runGuildDiscovery.
DRemoveDepartedMembersMutant(c) ==
  /\ disc[c].pc = "removeDepartedMembers"
  /\ \/ /\ disc' = [disc EXCEPT ![c].pc = "notifyCritical", ![c].departed = {},
                                ![c].membershipError = TRUE]
        /\ UNCHANGED db
     \/ /\ disc' = [disc EXCEPT ![c].pc = "upsert", ![c].departed = {},
                                ![c].pending = DOMAIN disc[c].members]
        /\ db' = RemoveDepartedMembers(db, disc[c].departed)
  /\ UNCHANGED <<sched, enr, ghost>>
  /\ UNCHANGED <<syncErrors, api>>

\* handleMembershipChanges: removeDepartedMembers answers (or throws).
DRemoveDepartedMembers(c) ==
  /\ disc[c].pc = "removeDepartedMembers"
  /\ \/ /\ disc' = [disc EXCEPT ![c].pc = "upsert", ![c].departed = {},
                                ![c].pending = DOMAIN disc[c].members,
                                ![c].membershipError = TRUE]
        /\ UNCHANGED db
     \/ /\ disc' = [disc EXCEPT ![c].pc = "upsert", ![c].departed = {},
                                ![c].pending = DOMAIN disc[c].members]
        /\ db' = RemoveDepartedMembers(db, disc[c].departed)
  /\ UNCHANGED <<sched, enr, ghost>>
  /\ UNCHANGED <<syncErrors, api>>

\* runGuildDiscovery step 2: one of the upserts started by members.map
\* settles.
DUpsert(c) ==
  /\ disc[c].pc = "upsert"
  /\ \E k \in disc[c].pending :
       /\ disc' = [disc EXCEPT
                     ![c].pending = @ \ {k},
                     ![c].pc = IF disc[c].pending = {k}
                               THEN "checkActivity" ELSE "upsert",
                     ![c].i = 1]
       /\ db' = UpsertGuildMember(db, RosterMember(disc[c].members[k]))
  /\ UNCHANGED <<sched, enr, ghost>>
  /\ UNCHANGED <<syncErrors, api>>

\* getLastLoginTimestamp, lines 539-556: days since the login and the status.
DaysSince(lastLogin) == (Now - lastLogin) \div Day
ActivityStatus(lastLogin) ==
  IF DaysSince(lastLogin) <= ActiveDays THEN "active" ELSE "inactive"

\* getLastLoginTimestamp: what it returns for the profile's
\* last_login_timestamp; NULL stands for a profile without the field and for
\* the 404 answer, which give the same status and timestamp.
GetLastLoginTimestamp(lastLogin) ==
  IF lastLogin # NULL
  THEN [last_login_timestamp |-> lastLogin,
        activity_status |-> ActivityStatus(lastLogin)]
  ELSE [last_login_timestamp |-> NULL, activity_status |-> "inactive"]

\* The activityData of one member in bulkCheckActivity: what
\* getLastLoginTimestamp returned for one of the stamps or for no stamp, or
\* the record the catch block builds when it threw.
ActivityOutcomesOf(stamps) ==
  {GetLastLoginTimestamp(t) : t \in stamps \cup {NULL}}
  \cup {[last_login_timestamp |-> NULL, activity_status |-> "unknown"]}

ActivityOutcomes == ActivityOutcomesOf(LoginStamps)

\* bulkCheckActivity: the activity request of member i answers with one of
\* the outcomes.
DCheckActivityOf(c, outcomes) ==
  /\ disc[c].pc = "checkActivity"
  /\ \E activityData \in outcomes :
       disc' = [disc EXCEPT
                  ![c].results =
                    Append(@, [character_name |-> disc[c].members[disc[c].i].name,
                               realm |-> disc[c].members[disc[c].i].realm,
                               activityData |-> activityData]),
                  ![c].i = IF disc[c].i = Len(disc[c].members) THEN 1 ELSE @ + 1,
                  ![c].pc = IF disc[c].i = Len(disc[c].members)
                            THEN "updateActivity" ELSE "checkActivity"]
  /\ UNCHANGED <<sched, db, enr, ghost>>
  /\ UNCHANGED <<syncErrors, api>>

DCheckActivity(c) == DCheckActivityOf(c, ActivityOutcomes)

\* PrismaService.updateActivityStatus: the data written to the row.
UpdateActivityStatus(row, activityData) ==
  IF activityData.last_login_timestamp # NULL
  THEN [row EXCEPT !.last_login_timestamp = activityData.last_login_timestamp,
                   !.activity_status = activityData.activity_status]
  ELSE [row EXCEPT !.activity_status = "inactive"]

\* bulkUpdateActivityStatus: the update of result i settles (each update
\* writes its own row, so the order of settling does not show in the table);
\* after the last one the run completes.
DUpdateActivity(c) ==
  /\ disc[c].pc = "updateActivity"
  /\ LET update == disc[c].results[disc[c].i]
         target == {r \in db : r.character_name = update.character_name
                               /\ r.realm = update.realm}
     IN db' = {IF r \in target
               THEN UpdateActivityStatus(r, update.activityData) ELSE r :
                 r \in db}
  /\ IF disc[c].i = Len(disc[c].results)
     THEN /\ disc' = [disc EXCEPT ![c] = IdleDiscovery]
          /\ DiscoveryFinally(c)
     ELSE /\ disc' = [disc EXCEPT ![c].i = @ + 1]
          /\ UNCHANGED <<isGuildDiscoveryRunning, startPc>>
  /\ UNCHANGED <<isRunning, isActiveSyncRunning, startupCall, cronActive,
                 proc, enr, ghost>>
  /\ UNCHANGED <<syncErrors, api>>

\* A failed roster fetch taken as a roster without members: after the
\* notification the cycle goes on to the membership handling.
DNotifyCriticalMutant(c) ==
  /\ disc[c].pc = "notifyCritical"
  /\ disc' = [disc EXCEPT ![c].pc = "getAllMemberNames"]
  /\ UNCHANGED <<sched, db, syncErrors, api, enr, ghost>>

\* The catch block of runGuildDiscovery: sendCriticalErrorNotification
\* returns, then the finally block.
DNotifyCritical(c) ==
  /\ disc[c].pc = "notifyCritical"
  /\ disc' = [disc EXCEPT ![c] = IdleDiscovery]
  /\ DiscoveryFinally(c)
  /\ UNCHANGED <<isRunning, isActiveSyncRunning, startupCall, cronActive,
                 proc, db, enr, ghost>>
  /\ UNCHANGED <<syncErrors, api>>

Discovery(c) ==
  \/ DGetMembers(c)
  \/ DGetAllMemberNames(c)
  \/ DRemoveDepartedMembers(c)
  \/ DUpsert(c)
  \/ DCheckActivity(c)
  \/ DUpdateActivity(c)
  \/ DNotifyCritical(c)

(***************************************************************************)
(* Tier B: runActiveCharacterSync.                                         *)
(***************************************************************************)
\* runActiveCharacterSync without its re-entrancy check.
ActiveSyncAlreadyRunningMutant == FALSE

\* runActiveCharacterSync, line 236: the re-entrancy check.
ActiveSyncAlreadyRunning == isActiveSyncRunning

\* runActiveCharacterSync from its call to its first await.
RunActiveCharacterSync ==
  IF ActiveSyncAlreadyRunning
  THEN UNCHANGED <<isActiveSyncRunning, enr, runsStarted>>
  ELSE /\ isActiveSyncRunning' = TRUE
       /\ \E c \in FreeCall(enr) :
            enr' = [enr EXCEPT
                      ![c] = [IdleEnrichment EXCEPT !.pc = "getActiveCharacters"]]
       /\ runsStarted' = [runsStarted EXCEPT !["enrichment"] = @ + 1]

\* The active character sync tick skipped while either tier runs: one lock
\* shared by both tiers.
SkipScheduledActiveSyncMutant ==
  ~isRunning \/ isActiveSyncRunning \/ isGuildDiscoveryRunning

\* scheduleTwoTierSync, the active character sync cron callback: the
\* condition under which the tick is skipped.
SkipScheduledActiveSync == ~isRunning \/ isActiveSyncRunning

\* The cron callback of activeCharacterSyncJob.
CronActiveCharacterSync ==
  /\ cronActive
  /\ TriggersLeft
  /\ Arrive("enrichment", isRunning)
  /\ IF SkipScheduledActiveSync
     THEN UNCHANGED <<isActiveSyncRunning, enr, runsStarted>>
     ELSE RunActiveCharacterSync
  /\ UNCHANGED <<isRunning, isGuildDiscoveryRunning, startPc, startupCall,
                 cronActive, proc, db, disc, lastRoster, prevRoster>>
  /\ UNCHANGED <<syncErrors, api>>

\* A direct call of runActiveCharacterSync.
DirectActiveCharacterSync ==
  /\ startPc = "started"
  /\ TriggersLeft
  /\ Arrive("enrichment", TRUE)
  /\ RunActiveCharacterSync
  /\ UNCHANGED <<isRunning, isGuildDiscoveryRunning, startPc, startupCall,
                 cronActive, proc, db, disc, lastRoster, prevRoster>>
  /\ UNCHANGED <<syncErrors, api>>

\* PrismaService.getActiveCharacters: the rows at or after the cutoff, by
\* last_login_timestamp descending, then character_name ascending.
CutoffTimestamp(daysActive) == Now - daysActive * Day
\* Selection of every row that has a timestamp, whatever its age.
ActiveRowsMutant(table, daysActive) ==
  {r \in table : r.last_login_timestamp # NULL}

ActiveRows(table, daysActive) ==
  {r \in table : r.last_login_timestamp # NULL
                 /\ r.last_login_timestamp >= CutoffTimestamp(daysActive)}
NameRank(r) == CHOOSE k \in DOMAIN GuildCharacters : GuildCharacters[k] = Key(r)
Before(r, q) ==
  \/ r.last_login_timestamp > q.last_login_timestamp
  \/ /\ r.last_login_timestamp = q.last_login_timestamp
     /\ NameRank(r) < NameRank(q)
RECURSIVE OrderRows(_)
OrderRows(rows) ==
  IF rows = {} THEN <<>>
  ELSE LET first == CHOOSE r \in rows : \A q \in rows \ {r} : Before(r, q)
       IN <<Key(first)>> \o OrderRows(rows \ {first})
GetActiveCharacters(table, daysActive) == OrderRows(ActiveRows(table, daysActive))

\* Answers of the providers.
RaiderIOResponses ==
  {[gear |-> 676, mplus |-> 2500, raid |-> "4/8 H"]}
BracketRatings ==
  {[r2v2 |-> a, r3v3 |-> b, rbg |-> FAIL, solo |-> FAIL, points |-> FAIL] :
     a \in {FAIL}, b \in {FAIL, 1800}}
BlizzardProfiles == {[equipped_item_level |-> 670]}

Rating(x) == IF x = FAIL THEN 0 ELSE x
Max3(a, b, c) ==
  IF a >= b /\ a >= c THEN a ELSE IF b >= c THEN b ELSE c

\* getMemberFromRaiderIO, lines 137-159: the fields taken from the profile.
RaiderIOData(resp) ==
  [NoData EXCEPT
     !.source = "raiderio+blizzard",
     !.item_level = OrZero(resp.gear),
     !.mythic_plus_score = OrZero(resp.mplus),
     !.raid_progress = IF resp.raid = UndefProgress THEN NoProgress ELSE resp.raid]

\* getBlizzardAchievementsAndPvP / the bracket requests of
\* getMemberFromBlizzard: a failed request leaves 0; the summary rating is
\* the maximum of the three brackets.
WithRatings(data, b) ==
  [data EXCEPT
     !.pvp_2v2_rating = Rating(b.r2v2),
     !.pvp_3v3_rating = Rating(b.r3v3),
     !.pvp_rbg_rating = Rating(b.rbg),
     !.achievement_points = Rating(b.points),
     !.solo_shuffle_rating = Rating(b.solo),
     !.current_pvp_rating = Max3(Rating(b.r2v2), Rating(b.r3v3), Rating(b.rbg))]

\* The fallback record without the profile's item level.
BlizzardDataMutant(profile, b) ==
  WithRatings([NoData EXCEPT
                 !.source = "blizzard",
                 !.mythic_plus_score = 0,
                 !.raid_progress = NoProgress], b)

\* getMemberFromBlizzard, lines 503-519: the record built from the profile.
BlizzardData(profile, b) ==
  WithRatings([NoData EXCEPT
                 !.source = "blizzard",
                 !.item_level = OrZero(profile.equipped_item_level),
                 !.mythic_plus_score = 0,
                 !.raid_progress = NoProgress], b)

\* runActiveCharacterSync, lines 294-310: the member object passed to
\* upsertGuildMember.
SyncedMember(member, data) ==
  [name |-> member.name, realm |-> member.realm,
   item_level |-> data.item_level,
   mythic_plus_score |-> data.mythic_plus_score,
   current_pvp_rating |-> data.current_pvp_rating,
   raid_progress |-> data.raid_progress]

\* A return that leaves the flag as it is.
ActiveSyncFinallyMutant(c) ==
  /\ UNCHANGED isActiveSyncRunning
  /\ enr' = [enr EXCEPT ![c] = IdleEnrichment]

\* The finally block of runActiveCharacterSync.
ActiveSyncFinally(c) ==
  /\ isActiveSyncRunning' = FALSE
  /\ enr' = [enr EXCEPT ![c] = IdleEnrichment]

\* Step 1: getActiveCharacters answers (or throws into the outer catch).
EGetActiveCharacters(c) ==
  /\ enr[c].pc = "getActiveCharacters"
  /\ \/ /\ enr' = [enr EXCEPT ![c].pc = "notifyCritical"]
        /\ UNCHANGED isActiveSyncRunning
     \/ LET activeMembers == GetActiveCharacters(db, SyncWindowDays)
        IN IF Len(activeMembers) = 0
           THEN ActiveSyncFinally(c)
           ELSE /\ enr' = [enr EXCEPT ![c].pc = "loop", ![c].i = 1,
                                      ![c].activeMembers = activeMembers]
                /\ UNCHANGED isActiveSyncRunning
  /\ UNCHANGED <<isRunning, isGuildDiscoveryRunning, startPc, startupCall,
                 cronActive, proc, db, disc, ghost>>
  /\ UNCHANGED <<syncErrors, api>>

\* The alert decided on the error rate alone.
AlertDueMutant(errorCount, total) ==
  errorCount > 0 /\ errorCount * 100 > 10 * total

\* Lines 366-380: the batch error alert is due.
AlertDue(errorCount, total) ==
  errorCount > 0 /\ (errorCount * 100 > 10 * total \/ errorCount > 5)

\* The head of the for loop: the next member's request starts, or the loop
\* ends (all members done, or the service was stopped) and the run completes.
ELoop(c) ==
  /\ enr[c].pc = "loop"
  /\ IF enr[c].i <= Len(enr[c].activeMembers) /\ isRunning
     THEN /\ enr' = [enr EXCEPT ![c].pc = "raiderio"]
          /\ UNCHANGED isActiveSyncRunning
     ELSE IF AlertDue(enr[c].errorCount, Len(enr[c].activeMembers))
          THEN /\ enr' = [enr EXCEPT ![c].pc = "notifyErrors"]
               /\ UNCHANGED isActiveSyncRunning
          ELSE ActiveSyncFinally(c)
  /\ UNCHANGED <<isRunning, isGuildDiscoveryRunning, startPc, startupCall,
                 cronActive, proc, db, disc, ghost>>
  /\ UNCHANGED <<syncErrors, api>>

\* getMember, source 'auto': the Raider.IO profile request answers.
ERaiderIO(c) ==
  /\ enr[c].pc = "raiderio"
  /\ \/ enr' = [enr EXCEPT ![c].pc = "blizzard"]
     \/ \E resp \in RaiderIOResponses :
          enr' = [enr EXCEPT ![c].pc = "blizzardExtras",
                             ![c].data = RaiderIOData(resp)]
  /\ UNCHANGED <<sched, db, disc, ghost>>
  /\ UNCHANGED <<syncErrors, api>>

\* getMemberFromRaiderIO: getBlizzardAchievementsAndPvP answers; when it
\* throws every rating stays 0.
EBlizzardExtras(c) ==
  /\ enr[c].pc = "blizzardExtras"
  /\ \E b \in BracketRatings :
       enr' = [enr EXCEPT ![c].pc = "upsert", ![c].data = WithRatings(@, b)]
  /\ UNCHANGED <<sched, db, disc, ghost>>
  /\ UNCHANGED <<syncErrors, api>>

\* error.message of a failed Blizzard profile request: the character is not
\* found (status 404), or any other failure.
ProviderFailures == {"not found", "provider"}

\* A member's error rethrown past the loop into the outer catch.
MemberFailedMutant(c, message) ==
  enr' = [enr EXCEPT ![c].pc = "notifyCritical", ![c].errorCount = @ + 1,
                     ![c].data = NoData]

\* A first failure of the run is retried: the loop stays at the member.
MemberFailedRetry(c, message) ==
  enr' = [enr EXCEPT
            ![c].pc = "loop",
            ![c].i = IF enr[c].errorCount = 0 THEN @ ELSE @ + 1,
            ![c].errorCount = @ + 1, ![c].data = NoData,
            ![c].recentErrors =
              Append(@, [character |-> enr[c].activeMembers[enr[c].i].name,
                         message |-> message])]

\* The catch of the loop body: the member counts as an error and its name
\* and the message are pushed to recentErrors (cleared when the run starts).
MemberFailed(c, message) ==
  enr' = [enr EXCEPT
            ![c].pc = "loop", ![c].i = @ + 1,
            ![c].errorCount = @ + 1, ![c].data = NoData,
            ![c].recentErrors =
              Append(@, [character |-> enr[c].activeMembers[enr[c].i].name,
                         message |-> message])]

\* The fallback that stores an empty profile when both providers failed.
EBlizzardMutant(c) ==
  /\ enr[c].pc = "blizzard"
  /\ MemberFailed(c, "provider")
  /\ db' = UpsertGuildMember(
             db, [name |-> enr[c].activeMembers[enr[c].i].name,
                  realm |-> enr[c].activeMembers[enr[c].i].realm,
                  item_level |-> NULL, mythic_plus_score |-> NULL,
                  current_pvp_rating |-> NULL, raid_progress |-> NoProgress])
  /\ UNCHANGED <<sched, disc, ghost>>
  /\ UNCHANGED <<syncErrors, api>>

\* getMember fallback: getMemberFromBlizzard answers or throws.
EBlizzard(c) ==
  /\ enr[c].pc = "blizzard"
  /\ \/ \E message \in ProviderFailures : MemberFailed(c, message)
     \/ \E profile \in BlizzardProfiles, b \in BracketRatings :
          enr' = [enr EXCEPT ![c].pc = "upsert",
                             ![c].data = BlizzardData(profile, b)]
  /\ UNCHANGED <<sched, db, disc, ghost>>
  /\ UNCHANGED <<syncErrors, api>>

\* The upsert of the fetched data settles; then the progress event and the
\* one second delay before the next member.
EUpsert(c) ==
  /\ enr[c].pc = "upsert"
  /\ \/ /\ db' = UpsertGuildMember(
                   db, SyncedMember(enr[c].activeMembers[enr[c].i], enr[c].data))
        /\ enr' = [enr EXCEPT ![c].pc = "loop", ![c].i = @ + 1,
                              ![c].data = NoData]
     \/ /\ MemberFailed(c, "database")
        /\ UNCHANGED db
  /\ UNCHANGED <<sched, disc, ghost>>
  /\ UNCHANGED <<syncErrors, api>>

\* sendSyncErrorNotification or (outer catch) sendCriticalErrorNotification
\* returns; then the finally block.
ENotify(c) ==
  /\ enr[c].pc \in {"notifyErrors", "notifyCritical"}
  /\ ActiveSyncFinally(c)
  /\ UNCHANGED <<isRunning, isGuildDiscoveryRunning, startPc, startupCall,
                 cronActive, proc, db, disc, ghost>>
  /\ UNCHANGED <<syncErrors, api>>

Enrichment(c) ==
  \/ EGetActiveCharacters(c)
  \/ ELoop(c)
  \/ ERaiderIO(c)
  \/ EBlizzardExtras(c)
  \/ EBlizzard(c)
  \/ EUpsert(c)
  \/ ENotify(c)

Next ==
  \/ Start
  \/ RunMissingDataSync
  \/ ScheduleTwoTierSync
  \/ Stop
  \/ CronGuildDiscovery
  \/ DirectGuildDiscovery
  \/ CronActiveCharacterSync
  \/ DirectActiveCharacterSync
  \/ \E c \in Calls : Discovery(c)
  \/ \E c \in Calls : Enrichment(c)

Spec == Init /\ [][Next]_vars

(***************************************************************************)
(* The activity check of one Discovery cycle over timestamps around the    *)
(* 30-day threshold.                                                       *)
(***************************************************************************)
\* last_login_timestamp values from two days under to two days over the
\* threshold, in every unit of time.
BoundaryStamps ==
  (Now - (ActiveDays + 2) * Day) .. (Now - (ActiveDays - 2) * Day)

\* runGuildDiscovery after step 2 of the first cycle of a fresh
\* installation: the roster is fetched and upserted, the activity check is
\* about to start.
InitActivity ==
  /\ isRunning = TRUE
  /\ isGuildDiscoveryRunning = TRUE
  /\ isActiveSyncRunning = FALSE
  /\ startPc = "started"
  /\ startupCall = 0
  /\ cronActive = TRUE
  /\ proc = "up"
  /\ syncErrors = <<>>
  /\ api = NewApi
  /\ \E roster \in Rosters :
       /\ Len(roster) > 0
       /\ db = {CreateRow(RosterMember(roster[k])) : k \in DOMAIN roster}
       /\ disc = [c \in Calls |->
                    IF c = 1
                    THEN [IdleDiscovery EXCEPT !.pc = "checkActivity",
                                               !.members = roster, !.i = 1]
                    ELSE IdleDiscovery]
       /\ lastRoster = Range(roster)
  /\ enr = [c \in Calls |-> IdleEnrichment]
  /\ arrivedIdle = [t \in Tiers |-> IF t = "discovery" THEN 1 ELSE 0]
  /\ arrivedLive = [t \in Tiers |-> IF t = "discovery" THEN 1 ELSE 0]
  /\ runsStarted = [t \in Tiers |-> IF t = "discovery" THEN 1 ELSE 0]
  /\ arrived = [t \in Tiers |-> IF t = "discovery" THEN 1 ELSE 0]
  /\ prevRoster = {}

DCheckActivityBoundary(c) ==
  DCheckActivityOf(c, ActivityOutcomesOf(BoundaryStamps))

NextActivity ==
  \E c \in Calls : DCheckActivityBoundary(c) \/ DUpdateActivity(c)

SpecActivity == InitActivity /\ [][NextActivity]_vars

(***************************************************************************)
(* The completion of one Enrichment run over batches of every size up to   *)
(* MaxBatch with every number of failed members.                           *)
(***************************************************************************)
\* Member k of a batch, and its row as selected: a 10-day-old login.
BatchMember(k) == [name |-> ToString(k), realm |-> "r1"]
BatchRow(k) ==
  [CreateRow(RosterMember(BatchMember(k))) EXCEPT
     !.last_login_timestamp = Now - 10 * Day, !.activity_status = "active"]

\* runActiveCharacterSync when its for loop has gone through a batch of
\* total members of which the first errorCount failed.
InitAlert ==
  /\ isRunning = TRUE
  /\ isGuildDiscoveryRunning = FALSE
  /\ isActiveSyncRunning = TRUE
  /\ startPc = "started"
  /\ startupCall = 0
  /\ cronActive = TRUE
  /\ proc = "up"
  /\ syncErrors = <<>>
  /\ api = NewApi
  /\ disc = [c \in Calls |-> IdleDiscovery]
  /\ \E total \in 1..MaxBatch : \E errorCount \in 0..total :
       /\ db = {BatchRow(k) : k \in 1..total}
       /\ lastRoster = {BatchMember(k) : k \in 1..total}
       /\ enr = [c \in Calls |->
                   IF c = 1
                   THEN [IdleEnrichment EXCEPT
                           !.pc = "loop", !.i = total + 1,
                           !.activeMembers = [k \in 1..total |-> BatchMember(k)],
                           !.errorCount = errorCount,
                           !.recentErrors =
                             [k \in 1..errorCount |->
                                [character |-> BatchMember(k).name,
                                 message |-> "provider"]]]
                   ELSE IdleEnrichment]
  /\ arrivedIdle = [t \in Tiers |-> 1]
  /\ arrivedLive = [t \in Tiers |-> 1]
  /\ runsStarted = [t \in Tiers |-> 1]
  /\ arrived = [t \in Tiers |-> 1]
  /\ prevRoster = {}

NextAlert == \E c \in Calls : ELoop(c) \/ ENotify(c)

SpecAlert == InitAlert /\ [][NextAlert]_vars

\* The same run with its scheduling: the continuation of the loop is run by
\* the event loop, while nothing makes the request of
\* mg.messages.create, which the run awaits, settle.
(***************************************************************************)
(* The Blizzard token: getMemberFromBlizzard calls, one at a time, against *)
(* an API that may stop accepting a token it issued.                       *)
(***************************************************************************)
\* The part of the service that these calls leave alone.
ServiceIdle == UNCHANGED <<sched, db, syncErrors, disc, enr, ghost>>

\* getMemberFromBlizzard (Enrichment) or getLastLoginTimestamp (Discovery)
\* starts with getBlizzardToken: the cached token is returned if there is
\* one, else the token request is made.
CallBlizzard(t) ==
  /\ api.pc[t] = "idle" /\ api.calls < MaxRequests
  /\ api' = IF api.blizzardToken # NULL
            THEN [api EXCEPT !.pc[t] = "request",
                             !.token[t] = api.blizzardToken,
                             !.calls = @ + 1, !.outcome[t] = "none"]
            ELSE [api EXCEPT !.pc[t] = "getToken", !.calls = @ + 1,
                             !.outcome[t] = "none"]
  /\ ServiceIdle

\* getBlizzardToken: the token request answers; the new token is cached and
\* the profile request is made with it, or the error is rethrown.
TokenResponse(t) ==
  /\ api.pc[t] = "getToken"
  /\ \/ /\ api.issued < MaxTokens
        /\ api' = [api EXCEPT !.issued = @ + 1,
                              !.valid = @ \cup {api.issued + 1},
                              !.blizzardToken = api.issued + 1,
                              !.token[t] = api.issued + 1,
                              !.pc[t] = "request"]
     \/ api' = [api EXCEPT !.pc[t] = "idle", !.outcome[t] = "tokenError"]
  /\ ServiceIdle

\* The profile request answers: 401 for a token the API no longer accepts,
\* which axios throws and neither caller handles.
ProfileResponse(t) ==
  /\ api.pc[t] = "request"
  /\ api' = IF api.token[t] \in api.valid
            THEN [api EXCEPT !.pc[t] = "idle", !.token[t] = NULL,
                             !.outcome[t] = "ok"]
            ELSE [api EXCEPT !.pc[t] = "idle", !.token[t] = NULL,
                             !.outcome[t] = "unauthorized",
                             !.rejected = @ \cup {api.token[t]}]
  /\ ServiceIdle

\* The API stops accepting a token (it expired or was revoked).
TokenExpires ==
  /\ \E k \in api.valid : api' = [api EXCEPT !.valid = @ \ {k}]
  /\ ServiceIdle

\* The service between two runs, its table empty.
InitToken == InitWith(NewApi)

NextToken ==
  \/ \E t \in Tiers : CallBlizzard(t) \/ TokenResponse(t) \/ ProfileResponse(t)
  \/ TokenExpires

SpecToken == InitToken /\ [][NextToken]_vars

(***************************************************************************)
(* The times of the requests to the Blizzard API: the requests that        *)
(* getBlizzardAchievementsAndPvP makes for a member of an Enrichment run   *)
(* and those of bulkCheckActivity in a Discovery cycle.                    *)
(***************************************************************************)
\* axios.get towards the Blizzard API at the present time.
Send(a) == [a EXCEPT !.lastRequest = a.clock, !.sent = @ + 1]

\* The requests of getBlizzardAchievementsAndPvP, lines 226-275, in order.
ExtrasRequests ==
  <<"achievements", "character", "pvp-bracket/2v2", "pvp-bracket/3v3",
    "pvp-bracket/rbg", "pvp-summary">>

\* getBlizzardAchievementsAndPvP is called for a member: the achievements
\* request is sent.
StartExtras ==
  /\ api.extras = 0 /\ api.calls < MaxRequests
  /\ api' = Send([api EXCEPT !.extras = 1, !.calls = @ + 1])
  /\ ServiceIdle

\* The pending request settles (its error is caught); the next request is
\* sent at once, or the function returns.
ExtrasResponse ==
  /\ api.extras > 0
  /\ api' = IF api.extras < Len(ExtrasRequests)
            THEN Send([api EXCEPT !.extras = @ + 1])
            ELSE [api EXCEPT !.extras = 0]
  /\ ServiceIdle

\* bulkCheckActivity is called for a roster: the last-login request of its
\* first member is sent.
StartBulkCheck ==
  /\ api.check = "idle" /\ api.calls < MaxRequests
  /\ \E n \in 1..MaxChecks :
       api' = Send([api EXCEPT !.check = "lastLogin", !.left = n,
                               !.calls = @ + 1])
  /\ ServiceIdle

\* The last-login request settles; sleep(200) unless it was the last member.
LastLoginResponse ==
  /\ api.check = "lastLogin"
  /\ api' = IF api.left > 1
            THEN [api EXCEPT !.check = "sleep", !.left = @ - 1,
                             !.wake = api.clock + ActivitySleep]
            ELSE [api EXCEPT !.check = "idle", !.left = 0]
  /\ ServiceIdle

\* The sleep is over: the request of the next member is sent.
SleepOver ==
  /\ api.check = "sleep" /\ api.clock >= api.wake
  /\ api' = Send([api EXCEPT !.check = "lastLogin"])
  /\ ServiceIdle

\* 100 ms pass.
Tick ==
  /\ api.clock < MaxClock
  /\ api' = [api EXCEPT !.clock = @ + 1]
  /\ ServiceIdle

InitRate == InitWith(NewApi)

NextRate ==
  \/ StartExtras
  \/ ExtrasResponse
  \/ StartBulkCheck
  \/ LastLoginResponse
  \/ SleepOver
  \/ Tick

SpecRate == InitRate /\ [][NextRate]_vars

(***************************************************************************)
(* The URLs of the per-character requests to the Blizzard API.             *)
(***************************************************************************)
\* config.guild.realm, and String.toLowerCase on the names that occur.
GuildRealm == "Archimonde"
ToLowerCase(str) ==
  CASE str = "Archimonde" -> "archimonde"
    [] str = "Aba" -> "aba"
    [] str = "Bob" -> "bob"
    [] str = "Cid" -> "cid"
    [] OTHER -> str

\* Members of the roster response: character.name, character.realm.slug
\* ("" when the response has none) and character.key.href; a guild holds
\* characters of connected realms.
RosterEntries ==
  {e \in [name : {"Aba", "Bob", "Cid"},
          slug : {"archimonde", "ysondre", ""},
          href : [realm : {"archimonde", "ysondre"},
                  name : {"aba", "bob", "cid"}]] :
     /\ e.href.name = ToLowerCase(e.name)
     /\ e.slug # "" => e.slug = e.href.realm}

\* getMembers, lines 79-85: the member built from a roster entry.
MapMember(e) ==
  [name |-> e.name,
   realm |-> IF e.slug # "" THEN e.slug ELSE GuildRealm,
   character_api_url |-> e.href]

\* The URL built from realm and name (lines 212-214, 381-383, 529-531) and
\* the function that requests it.
ManualUrl(name, realm, by) ==
  [url |-> CharacterUrl(ToLowerCase(realm), ToLowerCase(name)),
   built |-> "manual", by |-> by]

\* getMemberFromBlizzard, lines 376-386: the provided URL if there is one.
BlizzardCharacterUrl(name, realm, characterApiUrl) ==
  IF characterApiUrl # NoUrl
  THEN [url |-> characterApiUrl, built |-> "href",
        by |-> "getMemberFromBlizzard"]
  ELSE ManualUrl(name, realm, "getMemberFromBlizzard")

\* The row getActiveCharacters returns for a stored member: its select has
\* no character_api_url (the table has no such column).
SelectedMember(m) ==
  [character_name |-> m.name, realm |-> m.realm, character_api_url |-> NoUrl]

\* bulkCheckActivity: getLastLoginTimestamp(char.name, char.realm, region)
\* for a member of the roster.
LastLoginRequest ==
  /\ api.calls < MaxRequests
  /\ \E e \in RosterEntries :
       LET m == MapMember(e)
       IN api' = [api EXCEPT !.member = m, !.calls = @ + 1,
                             !.request = ManualUrl(m.name, m.realm,
                                                   "getLastLoginTimestamp")]
  /\ ServiceIdle

\* runActiveCharacterSync: getMember(..., 'auto', member.character_api_url
\* || null) reaches getMemberFromBlizzard for a stored roster member.
ProfileRequest ==
  /\ api.calls < MaxRequests
  /\ \E e \in RosterEntries :
       LET m == MapMember(e)
           member == SelectedMember(m)
       IN api' = [api EXCEPT
                    !.member = m, !.calls = @ + 1,
                    !.request = BlizzardCharacterUrl(
                                  member.character_name, member.realm,
                                  member.character_api_url)]
  /\ ServiceIdle

\* getMemberFromRaiderIO: getBlizzardAchievementsAndPvP(name, realm, ...)
\* for a stored roster member.
RatingsRequest ==
  /\ api.calls < MaxRequests
  /\ \E e \in RosterEntries :
       LET m == MapMember(e)
       IN api' = [api EXCEPT
                    !.member = m, !.calls = @ + 1,
                    !.request = ManualUrl(m.name, m.realm,
                                          "getBlizzardAchievementsAndPvP")]
  /\ ServiceIdle

InitHandle == InitWith(NewApi)

NextHandle == LastLoginRequest \/ ProfileRequest \/ RatingsRequest

SpecHandle == InitHandle /\ [][NextHandle]_vars

(***************************************************************************)
(* The member loops of the two tiers in time: runActiveCharacterSync       *)
(* fetches and stores one member, waits one second, and goes to the next;  *)
(* bulkCheckActivity does the same with a sleep of 200 ms.  Time is in     *)
(* units of 100 ms.                                                        *)
(***************************************************************************)
MemberDelay == 10

\* The delay between two members of a tier's loop.
LoopDelay(t) == IF t = "discovery" THEN ActivitySleep ELSE MemberDelay

\* The re-entrancy flag of a tier.
TierRunning(t) ==
  IF t = "discovery" THEN isGuildDiscoveryRunning ELSE isActiveSyncRunning

SetTierRunning(t, value) ==
  /\ isGuildDiscoveryRunning' =
       IF t = "discovery" THEN value ELSE isGuildDiscoveryRunning
  /\ isActiveSyncRunning' =
       IF t = "enrichment" THEN value ELSE isActiveSyncRunning
  /\ UNCHANGED <<isRunning, startPc, startupCall, cronActive, proc, db,
                 syncErrors, disc, enr, ghost>>

\* A trigger of tier t (cron, startup or a direct call): it returns at once
\* when the tier's flag is set; otherwise it sets the flag, obtains the
\* members and sends the request of the first one.
RunTier(t, c) ==
  /\ c \in FreeCall(api.run[t])
  /\ IF TierRunning(t)
     THEN UNCHANGED vars
     ELSE /\ \E n \in 1..MaxChecks :
               api' = [api EXCEPT !.run[t][c] =
                         [pc |-> "fetch", i |-> 1, total |-> n, done |-> 0]]
          /\ SetTierRunning(t, TRUE)

\* The fetch of the member settles and the member is processed (stored, or
\* counted as an error).  The delay starts unless it was the last member;
\* after the last member the run completes and clears the flag.
MemberProcessed(t, c) ==
  /\ api.run[t][c].pc = "fetch"
  /\ IF api.run[t][c].i < api.run[t][c].total
     THEN /\ api' = [api EXCEPT !.run[t][c].pc = "delay",
                                !.run[t][c].done = api.clock]
          /\ UNCHANGED <<sched, db, syncErrors, disc, enr, ghost>>
     ELSE /\ api' = [api EXCEPT !.run[t][c] = IdleLoop]
          /\ SetTierRunning(t, FALSE)

\* The next member is fetched although the delay has not run out.
DelayOverMutant(t, c) ==
  /\ api.run[t][c].pc = "delay"
  /\ api' = [api EXCEPT !.run[t][c].pc = "fetch", !.run[t][c].i = @ + 1]
  /\ UNCHANGED <<sched, db, syncErrors, disc, enr, ghost>>

\* The timer of the delay fires: the request of the next member is sent.
DelayOver(t, c) ==
  /\ api.run[t][c].pc = "delay"
  /\ api.clock >= api.run[t][c].done + LoopDelay(t)
  /\ api' = [api EXCEPT !.run[t][c].pc = "fetch", !.run[t][c].i = @ + 1]
  /\ UNCHANGED <<sched, db, syncErrors, disc, enr, ghost>>

InitSequence == InitWith(NewApi)

NextSequence ==
  \/ \E t \in Tiers, c \in Calls : RunTier(t, c)
  \/ \E t \in Tiers, c \in Calls : MemberProcessed(t, c)
  \/ \E t \in Tiers, c \in Calls : DelayOver(t, c)
  \/ Tick

SpecSequence == InitSequence /\ [][NextSequence]_vars

(***************************************************************************)
(* getMember in 'auto' mode, over the answers the two providers can give.  *)
(***************************************************************************)
\* Raider.IO profiles (status 200): every field may be missing, as for a
\* character the provider has not indexed or has indexed in part.
RaiderIOProfiles ==
  [gear : {676, UNDEF}, mplus : {2500, UNDEF}, raid : {"4/8 H", UndefProgress}]

\* How much of the profile the provider has.
Indexed(resp) ==
  IF resp.gear # UNDEF /\ resp.mplus # UNDEF /\ resp.raid # UndefProgress
  THEN "complete"
  ELSE IF resp.gear = UNDEF /\ resp.mplus = UNDEF /\ resp.raid = UndefProgress
       THEN "empty" ELSE "partial"

\* Answers of the bracket requests: 2v2, 3v3, rbg and the best solo shuffle
\* bracket of the PvP summary.
QueriedBrackets ==
  [r2v2 : {FAIL, 1500}, r3v3 : {FAIL, 1800}, rbg : {FAIL, 1600},
   solo : {FAIL, 2100}, points : {FAIL}]

\* getMember(name, realm, region, 'auto') is called: the Raider.IO request
\* is sent.
GetMemberAuto ==
  /\ api.fetch.pc \in {"idle", "done", "failed"}
  /\ api' = [api EXCEPT !.fetch = [IdleFetch EXCEPT !.pc = "raiderio"]]
  /\ ServiceIdle

\* getMemberFromRaiderIO: axios.get rejects, and getMember turns to
\* getMemberFromBlizzard; or it answers with a profile, from which the
\* record is built whatever it holds.
RaiderIOAnswer ==
  /\ api.fetch.pc = "raiderio"
  /\ \/ api' = [api EXCEPT !.fetch.pc = "blizzard",
                            !.fetch.primary = "failed"]
     \/ \E resp \in RaiderIOProfiles :
          api' = [api EXCEPT !.fetch.pc = "extras",
                             !.fetch.primary = Indexed(resp),
                             !.fetch.data = RaiderIOData(resp)]
  /\ ServiceIdle

\* getBlizzardAchievementsAndPvP answers and getMemberFromRaiderIO returns
\* its record.
ExtrasAnswer ==
  /\ api.fetch.pc = "extras"
  /\ \E b \in QueriedBrackets :
       api' = [api EXCEPT !.fetch.pc = "done", !.fetch.brackets = b,
                          !.fetch.data = WithRatings(@, b)]
  /\ ServiceIdle

\* getMemberFromBlizzard: the profile request fails and getMember throws,
\* or the record is built from the profile and the bracket answers.
BlizzardAnswer ==
  /\ api.fetch.pc = "blizzard"
  /\ \/ api' = [api EXCEPT !.fetch.pc = "failed",
                            !.fetch.secondary = "failed"]
     \/ \E profile \in BlizzardProfiles, b \in QueriedBrackets :
          api' = [api EXCEPT !.fetch.pc = "done", !.fetch.brackets = b,
                             !.fetch.secondary = "fetched",
                             !.fetch.data = BlizzardData(profile, b)]
  /\ ServiceIdle

InitAggregate == InitWith(NewApi)

NextAggregate ==
  GetMemberAuto \/ RaiderIOAnswer \/ ExtrasAnswer \/ BlizzardAnswer

SpecAggregate == InitAggregate /\ [][NextAggregate]_vars

(***************************************************************************)
(* Steps 3 and 4 of runGuildDiscovery over the answers of the profile      *)
(* endpoint: what is logged and counted as an error.                       *)
(***************************************************************************)
\* Answers of the profile request of getLastLoginTimestamp: a profile with
\* a last_login_timestamp, a profile without one, status 404, and any other
\* failure (timeout, 5xx, token failure).
ProfileAnswers == {"login", "no login", "not found", "failed"}

\* bulkCheckActivity is called for the roster.
ActivityCheckStarts ==
  /\ api.activity.pc \in {"idle", "done"}
  /\ \E n \in 1..MaxChecks :
       api' = [api EXCEPT !.activity =
                 [IdleActivity EXCEPT !.pc = "lastLogin", !.total = n]]
  /\ ServiceIdle

\* The result of a member that counts as a failed check like the thrown
\* one: a profile without last login is thrown by getLastLoginTimestamp.
ActivityAnswerMutant ==
  /\ api.activity.pc = "lastLogin"
  /\ \E answer \in ProfileAnswers, stamp \in LoginStamps :
       LET member == Len(api.activity.answers) + 1
           thrown == answer \in {"failed", "no login"}
           activityData ==
             IF thrown
             THEN [last_login_timestamp |-> NULL, activity_status |-> "unknown"]
             ELSE GetLastLoginTimestamp(IF answer = "login" THEN stamp ELSE NULL)
       IN api' = [api EXCEPT
                    !.activity.answers = Append(@, answer),
                    !.activity.logged = IF thrown THEN @ \cup {member} ELSE @,
                    !.activity.results = Append(@, activityData),
                    !.activity.pc = IF member = api.activity.total
                                    THEN "update" ELSE "lastLogin"]
  /\ ServiceIdle

\* getLastLoginTimestamp returns for the next member of bulkCheckActivity,
\* or throws: only the thrown failure reaches the catch block that calls
\* logger.error and builds the 'unknown' record.
ActivityAnswer ==
  /\ api.activity.pc = "lastLogin"
  /\ \E answer \in ProfileAnswers, stamp \in LoginStamps :
       LET member == Len(api.activity.answers) + 1
           thrown == answer = "failed"
           activityData ==
             IF thrown
             THEN [last_login_timestamp |-> NULL, activity_status |-> "unknown"]
             ELSE GetLastLoginTimestamp(IF answer = "login" THEN stamp ELSE NULL)
       IN api' = [api EXCEPT
                    !.activity.answers = Append(@, answer),
                    !.activity.logged = IF thrown THEN @ \cup {member} ELSE @,
                    !.activity.results = Append(@, activityData),
                    !.activity.pc = IF member = api.activity.total
                                    THEN "update" ELSE "lastLogin"]
  /\ ServiceIdle

\* bulkUpdateActivityStatus: the update of the next result is fulfilled or
\* rejected; runGuildDiscovery counts the rejected ones in errorCount.
ActivityUpdateSettles ==
  /\ api.activity.pc = "update"
  /\ \E status \in {"fulfilled", "rejected"} :
       api' = [api EXCEPT
                 !.activity.settled = Append(@, status),
                 !.activity.errorCount =
                   IF status = "rejected" THEN @ + 1 ELSE @,
                 !.activity.pc =
                   IF Len(api.activity.settled) + 1 = api.activity.total
                   THEN "done" ELSE "update"]
  /\ ServiceIdle

InitErrors == InitWith(NewApi)

NextErrors == ActivityCheckStarts \/ ActivityAnswer \/ ActivityUpdateSettles

SpecErrors == InitErrors /\ [][NextErrors]_vars

(***************************************************************************)
(* EmailService: the throttle of the sync-error notifications.             *)
(***************************************************************************)
THROTTLE_DURATION == 3          \* 15 minutes
MAX_ERRORS_PER_PERIOD == 5

RECURSIVE SumOver(_, _)
SumOver(f, S) ==
  IF S = {} THEN 0
  ELSE LET x == CHOOSE y \in S : TRUE IN f[x] + SumOver(f, S \ {x})

\* isThrottled: the entries younger than THROTTLE_DURATION are counted, the
\* others are deleted from the map.
RecentEmails(errorThrottle, now) ==
  {t \in MailTimes : now - t < THROTTLE_DURATION /\ errorThrottle[t] > 0}
Cleaned(errorThrottle, now) ==
  [t \in MailTimes |->
     IF now - t < THROTTLE_DURATION THEN errorThrottle[t] ELSE 0]
IsThrottled(errorThrottle, now) ==
  SumOver(errorThrottle, RecentEmails(errorThrottle, now))
    >= MAX_ERRORS_PER_PERIOD

\* sendSyncErrorNotification is called: it returns false when throttled,
\* otherwise it builds the message and awaits mg.messages.create.
SendSyncErrorNotification ==
  /\ api.mail.calls < MaxMails
  /\ api' = [api EXCEPT
               !.mail.calls = @ + 1,
               !.mail.errorThrottle = Cleaned(@, api.mail.now),
               !.mail.sending =
                 IF IsThrottled(api.mail.errorThrottle, api.mail.now)
                 THEN @ ELSE @ + 1]
  /\ ServiceIdle

\* mg.messages.create of one call settles: the email was accepted and
\* recordErrorEmail stores Date.now(), or the request failed and the catch
\* returns false.
MailgunAnswers ==
  /\ api.mail.sending > 0
  /\ \/ api' = [api EXCEPT
                  !.mail.sending = @ - 1,
                  !.mail.sent[api.mail.now] = @ + 1,
                  !.mail.errorThrottle[api.mail.now] = @ + 1]
     \/ api' = [api EXCEPT !.mail.sending = @ - 1]
  /\ ServiceIdle

\* Five minutes pass.
MailClockTick ==
  /\ api.mail.now < MaxMailClock
  /\ api' = [api EXCEPT !.mail.now = @ + 1]
  /\ ServiceIdle

InitThrottle == InitWith(NewApi)

NextThrottle == SendSyncErrorNotification \/ MailgunAnswers \/ MailClockTick

SpecThrottle == InitThrottle /\ [][NextThrottle]_vars

(***************************************************************************)
(* Shutdown during an Enrichment run: gracefulShutdown calls stop() and    *)
(* arms a timer that ends the process.                                     *)
(***************************************************************************)
\* The row of a roster member after a Discovery cycle that found a
\* 10-day-old login.
ActiveRow(m) ==
  [CreateRow(RosterMember(m)) EXCEPT
     !.last_login_timestamp = Now - 10 * Day, !.activity_status = "active"]

\* The service is started, a Discovery cycle has stored a roster, and a
\* cron tick has just started runActiveCharacterSync.
InitShutdown ==
  /\ isRunning = TRUE
  /\ isGuildDiscoveryRunning = FALSE
  /\ isActiveSyncRunning = TRUE
  /\ startPc = "started"
  /\ startupCall = 0
  /\ cronActive = TRUE
  /\ proc = "up"
  /\ syncErrors = <<>>
  /\ api = NewApi
  /\ disc = [c \in Calls |-> IdleDiscovery]
  /\ \E roster \in Rosters :
       /\ Len(roster) > 0
       /\ db = {ActiveRow(roster[k]) : k \in DOMAIN roster}
       /\ lastRoster = Range(roster)
  /\ enr = [c \in Calls |->
              IF c = 1
              THEN [IdleEnrichment EXCEPT !.pc = "getActiveCharacters"]
              ELSE IdleEnrichment]
  /\ arrivedIdle = [t \in Tiers |-> 1]
  /\ arrivedLive = [t \in Tiers |-> 1]
  /\ runsStarted = [t \in Tiers |-> 1]
  /\ arrived = [t \in Tiers |-> 1]
  /\ prevRoster = {}

\* gracefulShutdown: the callback of setTimeout(..., 2000) calls
\* process.exit(0).
ExitProcess ==
  /\ proc = "stopping"
  /\ proc' = "exited"
  /\ UNCHANGED <<isRunning, isGuildDiscoveryRunning, isActiveSyncRunning,
                 startPc, startupCall, cronActive, db, syncErrors, api, disc,
                 enr,
                 ghost>>

\* The run goes on for as long as the process lives.
NextShutdown ==
  \/ Stop
  \/ ExitProcess
  \/ /\ proc # "exited"
     /\ \E c \in Calls : Enrichment(c)

SpecShutdown == InitShutdown /\ [][NextShutdown]_vars

(***************************************************************************)
(* The events runActiveCharacterSync emits to global.io.                   *)
(***************************************************************************)
\* if (global.io) global.io.emit(...)
Emit(events, io, event) == IF io THEN Append(events, event) ELSE events

\* The service is started and a Discovery cycle has stored a roster of
\* active members.
InitProgress ==
  /\ isRunning = TRUE
  /\ isGuildDiscoveryRunning = FALSE
  /\ isActiveSyncRunning = FALSE
  /\ startPc = "started"
  /\ startupCall = 0
  /\ cronActive = TRUE
  /\ proc = "up"
  /\ syncErrors = <<>>
  /\ api = NewApi
  /\ disc = [c \in Calls |-> IdleDiscovery]
  /\ enr = [c \in Calls |-> IdleEnrichment]
  /\ \E roster \in Rosters :
       /\ Len(roster) > 0
       /\ db = {ActiveRow(roster[k]) : k \in DOMAIN roster}
       /\ lastRoster = Range(roster)
  /\ arrivedIdle = [t \in Tiers |-> 1]
  /\ arrivedLive = [t \in Tiers |-> 1]
  /\ runsStarted = [t \in Tiers |-> 1]
  /\ arrived = [t \in Tiers |-> 1]
  /\ prevRoster = {}

\* runActiveCharacterSync is called while no run is active: the flag is
\* set, the batch is selected, syncProgress is initialised and the
\* 'starting' event is emitted.
SyncStarts ==
  /\ api.sync.pc \in {"idle", "finished"} /\ ~isActiveSyncRunning
  /\ isActiveSyncRunning' = TRUE
  /\ \E io \in BOOLEAN :
       api' = [api EXCEPT !.sync =
                 [pc |-> "loop", i |-> 0, current |-> 0,
                  total |-> Len(GetActiveCharacters(db, SyncWindowDays)),
                  errorCount |-> 0, io |-> io,
                  events |-> Emit(<<>>, io,
                                  [type |-> "syncProgress", status |-> "starting",
                                   current |-> 0, errors |-> 0])]]
  /\ UNCHANGED <<isRunning, isGuildDiscoveryRunning, startPc, startupCall,
                 cronActive, proc, db, syncErrors, disc, enr, ghost>>

\* The head of the for loop: the next member is fetched; or the loop is
\* over (all members done, or the service was stopped), 'syncComplete' is
\* emitted and the finally block runs.
SyncLoop ==
  /\ api.sync.pc = "loop"
  /\ IF api.sync.i < api.sync.total /\ isRunning
     THEN /\ api' = [api EXCEPT !.sync.pc = "getMember",
                                !.sync.current = api.sync.i + 1]
          /\ UNCHANGED isActiveSyncRunning
     ELSE /\ api' = [api EXCEPT
                       !.sync.pc = "finished",
                       !.sync.current = 0,
                       !.sync.events =
                         Emit(@, api.sync.io,
                              [type |-> "syncComplete", status |-> "complete",
                               current |-> api.sync.total,
                               errors |-> api.sync.errorCount])]
          /\ isActiveSyncRunning' = FALSE
  /\ UNCHANGED <<isRunning, isGuildDiscoveryRunning, startPc, startupCall,
                 cronActive, proc, db, syncErrors, disc, enr, ghost>>

\* The progress event counts the members from 0.
MemberSettledMutant ==
  /\ api.sync.pc = "getMember"
  /\ \E failed \in BOOLEAN :
       LET errorCount == api.sync.errorCount + (IF failed THEN 1 ELSE 0)
       IN api' = [api EXCEPT
                    !.sync.pc = "loop", !.sync.i = @ + 1,
                    !.sync.errorCount = errorCount,
                    !.sync.events =
                      Emit(@, api.sync.io,
                           [type |-> "syncProgress", status |-> "syncing",
                            current |-> api.sync.i,
                            errors |-> errorCount])]
  /\ ServiceIdle

\* getMember and the upsert settle: the member is synced, or it counts as
\* an error (no data, or an exception); the progress event is emitted and
\* the loop waits a second.
MemberSettled ==
  /\ api.sync.pc = "getMember"
  /\ \E failed \in BOOLEAN :
       LET errorCount == api.sync.errorCount + (IF failed THEN 1 ELSE 0)
       IN api' = [api EXCEPT
                    !.sync.pc = "loop", !.sync.i = @ + 1,
                    !.sync.errorCount = errorCount,
                    !.sync.events =
                      Emit(@, api.sync.io,
                           [type |-> "syncProgress", status |-> "syncing",
                            current |-> api.sync.current,
                            errors |-> errorCount])]
  /\ ServiceIdle

NextProgress == SyncStarts \/ SyncLoop \/ MemberSettled \/ Stop

SpecProgress == InitProgress /\ [][NextProgress]_vars

SpecAlertFair == SpecAlert /\ WF_vars(\E c \in Calls : ELoop(c))

\* The service with every external call of a run settling in the end (it
\* returns or fails) and the event loop running the continuation.
SpecRunsFair ==
  /\ Spec
  /\ \A c \in Calls : WF_vars(Discovery(c)) /\ WF_vars(Enrichment(c))

(***************************************************************************)
(* Properties.                                                             *)
(***************************************************************************)

\* C1: at most one Discovery run and at most one Enrichment run is active
\* at any time, whatever the interleaving of cron ticks, the startup run
\* and direct calls.
AtMostOneRunPerTier ==
  ActiveRuns("discovery") <= 1 /\ ActiveRuns("enrichment") <= 1

\* A discovery trigger arrived while a discovery run was active, and one run
\* is active.
DiscoveryTriggerWhileRunning ==
  /\ arrived["discovery"] > arrivedIdle["discovery"]
  /\ ActiveRuns("discovery") = 1
  /\ isGuildDiscoveryRunning

\* C2 as stated: the number of runs a tier has started equals the number of
\* its triggers that arrived while the tier was idle.
RunsEqualIdleArrivals ==
  \A t \in Tiers : runsStarted[t] = arrivedIdle[t]

\* C2: a trigger that arrives while its tier is running is dropped, not
\* queued: the number of runs a tier has started equals the number of its
\* triggers that arrived while the tier was idle, not counting the cron
\* ticks that found the service stopped.
RunsEqualLiveIdleArrivals ==
  \A t \in Tiers : runsStarted[t] = arrivedLive[t]

\* An enrichment trigger was dropped during the only enrichment run, and
\* that run is over.
DroppedTriggerNotQueued ==
  /\ arrived["enrichment"] > arrivedIdle["enrichment"]
  /\ runsStarted["enrichment"] = 1
  /\ ActiveRuns("enrichment") = 0
  /\ ~isActiveSyncRunning

\* C3: the tiers do not block each other: a trigger of one tier that arrives
\* while that tier is idle, the service is running and the other tier is in
\* the middle of a run starts its run, and the other tier's run goes on.
TiersDoNotBlock ==
  [][/\ (isGuildDiscoveryRunning
         /\ arrivedLive'["enrichment"] > arrivedLive["enrichment"])
        => /\ isActiveSyncRunning' /\ isGuildDiscoveryRunning'
           /\ runsStarted'["enrichment"] = runsStarted["enrichment"] + 1
           /\ disc' = disc
     /\ (isActiveSyncRunning
         /\ arrivedLive'["discovery"] > arrivedLive["discovery"])
        => /\ isGuildDiscoveryRunning' /\ isActiveSyncRunning'
           /\ runsStarted'["discovery"] = runsStarted["discovery"] + 1
           /\ enr' = enr]_vars

\* Both tiers are in the middle of a run: an enrichment run is fetching a
\* member's data while a discovery run is past its roster fetch.
BothTiersRunning ==
  /\ isGuildDiscoveryRunning /\ isActiveSyncRunning
  /\ \E c \in Calls : disc[c].pc \in {"upsert", "checkActivity", "updateActivity"}
  /\ \E c \in Calls : enr[c].pc \in {"raiderio", "blizzard", "blizzardExtras"}

\* C4: in every state where no run is in progress and the latest roster
\* fetch returned members, the persisted identities are exactly the
\* identities of that roster.
TableMirrorsLatestRoster ==
  (ActiveRuns("discovery") = 0 /\ ActiveRuns("enrichment") = 0
   /\ lastRoster # {})
  => {Key(r) : r \in db} = lastRoster

\* C5: reconciliation is the set difference keyed by (name, realm): when a
\* cycle is about to compare its roster with the table, the members the
\* code takes as joined are the roster identities without a row, and the
\* rows it takes as departed are the rows whose identity is not in the
\* roster.
ReconciliationByIdentity ==
  \A c \in Calls :
    disc[c].pc = "getAllMemberNames" =>
      LET members == disc[c].members
          existingNames == GetAllMemberNames(db)
          joined == {m \in Range(members) :
                       m.name \in NewMembers(members, existingNames)}
          departed == {Key(r) : r \in {q \in db :
                         q.character_name
                           \in DepartedMembers(members, existingNames)}}
      IN /\ joined = Range(members) \ {Key(r) : r \in db}
         /\ departed = {Key(r) : r \in db} \ Range(members)

\* C6: while an identity is in the latest fetched roster no step deletes
\* its row (so the row of an identity present in two consecutive fetches
\* survives from one to the other), and the table never holds two rows of
\* one identity.
RosterMemberKeptOnce ==
  [][/\ \A r \in db : Key(r) \in lastRoster => RowOf(db', Key(r)) # {}
     /\ \A id \in Identities : Cardinality(RowOf(db', id)) <= 1]_vars

\* A cycle has ended in which one identity was in both consecutive rosters
\* and kept its single row while another one, absent from the second
\* roster, lost its row.
StayedWhileOtherLeft ==
  /\ ActiveRuns("discovery") = 0
  /\ \E id \in prevRoster \cap lastRoster : Cardinality(RowOf(db, id)) = 1
  /\ \E id \in prevRoster \ lastRoster : RowOf(db, id) = {}

\* C7: when the membership handling of a cycle completes without an error,
\* every identity that was in the previous fetch and is absent from this
\* one has had its row deleted, and the rows deleted by any step are rows
\* of identities absent from the latest roster.
DepartedIdentityDeleted ==
  [][/\ \A c \in Calls :
          (/\ disc[c].pc \in {"getAllMemberNames", "removeDepartedMembers"}
           /\ disc'[c].pc = "upsert"
           /\ ~disc'[c].membershipError)
          => \A id \in prevRoster \ lastRoster : RowOf(db', id) = {}
     /\ \A r \in db : RowOf(db', Key(r)) = {} => Key(r) \notin lastRoster]_vars

\* C8: a step of a Discovery run leaves the performance fields of every row
\* of a roster member as they were.
DiscoveryKeepsPerformance ==
  [][disc' # disc =>
       \A r \in db, q \in db' :
         (Key(r) = Key(q) /\ Key(r) \in lastRoster)
         => /\ q.item_level = r.item_level
            /\ q.mythic_plus_score = r.mythic_plus_score
            /\ q.current_pvp_rating = r.current_pvp_rating
            /\ q.raid_progress = r.raid_progress]_vars

\* C9: the merge of an enrichment is monotone: when the fetched record is
\* stored, a field the providers did not supply keeps its stored value (a
\* known value does not regress to zero or null) and a supplied field takes
\* the fetched value.  Raider.IO supplies the item level, the dungeon score
\* and the raid progress, the Blizzard profile the item level, and the
\* rating is supplied when a bracket request answered.
MergeMonotone ==
  [][\A c \in Calls :
       (enr[c].pc = "upsert" /\ enr'[c].pc = "loop"
        /\ enr'[c].errorCount = enr[c].errorCount)
       => LET data == enr[c].data
              m == enr[c].activeMembers[enr[c].i]
          IN \A r \in RowOf(db, m), q \in RowOf(db', m) :
               /\ q.item_level = data.item_level
               /\ IF data.source = "raiderio+blizzard"
                  THEN /\ q.mythic_plus_score = data.mythic_plus_score
                       /\ q.raid_progress = data.raid_progress
                  ELSE /\ r.mythic_plus_score > 0
                          => q.mythic_plus_score = r.mythic_plus_score
                       /\ r.raid_progress # NoProgress
                          => q.raid_progress = r.raid_progress
               /\ IF data.current_pvp_rating > 0
                  THEN q.current_pvp_rating = data.current_pvp_rating
                  ELSE q.current_pvp_rating = r.current_pvp_rating]_vars

FailedMemberRowUntouched ==
  [][\A c \in Calls :
       (/\ enr[c].pc \in {"raiderio", "blizzard"}
        /\ enr'[c] # enr[c]
        /\ enr'[c].pc \in {"blizzard", "loop"})
       => db' = db]_vars

\* Both providers have just failed for a member whose row holds the item
\* level and the dungeon score of an earlier enrichment.
ProvidersFailedOverStoredProfile ==
  \E c \in Calls :
    /\ enr[c].pc = "loop" /\ enr[c].i >= 2
    /\ enr[c].recentErrors # <<>>
    /\ enr[c].recentErrors[Len(enr[c].recentErrors)].message = "provider"
    /\ \E r \in RowOf(db, enr[c].activeMembers[enr[c].i - 1]) :
         r.item_level > 0 /\ r.mythic_plus_score > 0

\* C12: a failure while a member is processed (provider or persistence
\* error) does not abort the run: the failure step goes back to the head of
\* the loop with the next member and the same batch, the head of the loop
\* starts the request of every member it reaches, and while the service is
\* running the run leaves the loop only after the last member.
FailureDoesNotAbort ==
  [][\A c \in Calls :
       /\ enr'[c].errorCount > enr[c].errorCount
          => /\ enr'[c].pc = "loop"
             /\ enr'[c].i = enr[c].i + 1
             /\ enr'[c].activeMembers = enr[c].activeMembers
       /\ (enr[c].pc = "loop" /\ enr'[c] # enr[c] /\ isRunning)
          => IF enr[c].i <= Len(enr[c].activeMembers)
             THEN enr'[c].pc = "raiderio" /\ enr'[c].i = enr[c].i
             ELSE enr'[c].pc \in {"notifyErrors", "idle"}]_vars

\* In a batch of two the first member failed and the second one has been
\* processed and stored without an error, the service still running.
SecondMemberSyncedAfterFailure ==
  \E c \in Calls :
    /\ isRunning
    /\ enr[c].pc = "loop"
    /\ Len(enr[c].activeMembers) = 2 /\ enr[c].i = 3
    /\ enr[c].errorCount = 1
    /\ enr[c].recentErrors[1].character = enr[c].activeMembers[1].name
    /\ \E r \in RowOf(db, enr[c].activeMembers[2]) : r.item_level > 0

\* C13: every member whose enrichment fails in a run adds exactly one row
\* for that member to sync_errors, and no other step of an Enrichment run
\* adds one.
OneSyncErrorPerFailedMember ==
  [][\A c \in Calls :
       enr'[c] # enr[c]
       => IF enr'[c].errorCount > enr[c].errorCount
          THEN syncErrors' =
                 LogSyncError(syncErrors,
                              enr[c].activeMembers[enr[c].i].name,
                              enr[c].activeMembers[enr[c].i].realm)
          ELSE syncErrors' = syncErrors]_vars

\* C14: when the roster fetch fails the Discovery cycle is aborted: the
\* failure leads to sendCriticalErrorNotification (the cycle never uses the
\* batch error alert), the cycle ends when the notification returns, and no
\* step of the cycle from the fetch on changes a row.
FailedFetchAbortsDiscovery ==
  [][\A c \in Calls :
       /\ (disc[c].pc = "getMembers" /\ disc'[c].pc = "notifyCritical")
          => /\ db' = db
             /\ disc'[c].members = <<>>
             /\ isGuildDiscoveryRunning'
       /\ (disc[c].pc = "notifyCritical" /\ disc'[c] # disc[c])
          => /\ db' = db
             /\ disc'[c].pc = "idle"
             /\ ~isGuildDiscoveryRunning'
       /\ disc'[c].pc # "notifyErrors"]_vars

\* The fetch of a cycle has failed while the table holds the rows of an
\* earlier cycle, and the critical notification is being sent.
FetchFailedOverStoredRoster ==
  \E c \in Calls :
    /\ disc[c].pc = "notifyCritical"
    /\ runsStarted["discovery"] >= 2
    /\ db # {} /\ {Key(r) : r \in db} = lastRoster

\* C15: the status the activity check returns for a timestamp t is active
\* iff now - t <= 30 days and inactive otherwise, to the unit of time: a
\* timestamp exactly 30 days old is active and one a unit older is inactive.
ClassifiedAtExactThreshold ==
  \A c \in Calls : \A k \in DOMAIN disc[c].results :
    LET data == disc[c].results[k].activityData
    IN data.last_login_timestamp # NULL =>
         data.activity_status =
           IF Now - data.last_login_timestamp <= ActiveDays * Day
           THEN "active" ELSE "inactive"

\* C16: when the activity check of a member found no last-login timestamp,
\* the status it returned is unknown and the status stored in the member's
\* row by the update is unknown.
NoTimestampIsUnknown ==
  [][\A c \in Calls :
       (disc[c].pc = "updateActivity" /\ disc'[c] # disc[c]) =>
         LET update == disc[c].results[disc[c].i]
         IN update.activityData.last_login_timestamp = NULL =>
              /\ update.activityData.activity_status = "unknown"
              /\ \A r \in db' :
                   (r.character_name = update.character_name
                    /\ r.realm = update.realm)
                   => r.activity_status = "unknown"]_vars

\* C17: in every persisted state the stored status of a row is the
\* classification of the row's stored last-login timestamp, and a row
\* without a stored timestamp carries the status of a check that found none
\* (unknown, stored by the table as inactive): the status is never written
\* without the timestamp it classifies.
StoredTierClassifiesStoredTimestamp ==
  \A r \in db :
    IF r.last_login_timestamp # NULL
    THEN r.activity_status = ActivityStatus(r.last_login_timestamp)
    ELSE r.activity_status \in {"unknown", "inactive"}

\* C18: the batch of an Enrichment run is exactly the persisted members
\* whose stored last-login timestamp is at most 30 days old when the
\* selection is made, each once; the batch stays the same for the whole run
\* and every profile request of the run is for a member of the batch, so no
\* member with a null or older timestamp is fetched.
BatchIsRecencyWindow ==
  [][\A c \in Calls :
       LET window == {Key(r) : r \in {q \in db :
                        /\ q.last_login_timestamp # NULL
                        /\ Now - q.last_login_timestamp
                             <= SyncWindowDays * Day}}
       IN /\ (enr[c].pc = "getActiveCharacters" /\ enr'[c].pc = "loop")
             => /\ Range(enr'[c].activeMembers) = window
                /\ Len(enr'[c].activeMembers) = Cardinality(window)
          /\ (enr[c].pc = "getActiveCharacters" /\ enr'[c].pc = "idle")
             => window = {}
          /\ (enr[c].pc \notin {"idle", "getActiveCharacters"}
              /\ enr'[c].pc # "idle")
             => enr'[c].activeMembers = enr[c].activeMembers
          /\ (enr[c].pc = "loop" /\ enr'[c].pc = "raiderio")
             => enr[c].i \in DOMAIN enr[c].activeMembers]_vars

\* A run has selected its batch while the table also holds a member whose
\* stored timestamp is 31 days old, and the first request is under way.
OldMemberLeftOutOfBatch ==
  \E c \in Calls :
    /\ enr[c].pc = "raiderio" /\ enr[c].i = 1
    /\ \E r \in db : /\ r.last_login_timestamp = Now - 31 * Day
                     /\ Key(r) \notin Range(enr[c].activeMembers)
    /\ \E r \in db : /\ r.last_login_timestamp = Now - 10 * Day
                     /\ Key(r) = enr[c].activeMembers[1]

\* C19: no member whose stored activity status is inactive or unknown when
\* the batch is selected is in the batch of the Enrichment run.
BatchHasOnlyActiveStatus ==
  [][\A c \in Calls :
       (enr[c].pc = "getActiveCharacters" /\ enr'[c].pc = "loop") =>
         \A r \in db :
           Key(r) \in Range(enr'[c].activeMembers)
           => r.activity_status \notin {"inactive", "unknown"}]_vars

\* C20: when the loop of an Enrichment run over a batch of N members ends
\* with E errors, the batch error alert is sent iff E > 5 or E / N > 10%;
\* the alert is sent from the end of the loop only and the run ends when it
\* returns, so a run sends it at most once.
AlertIffThresholdCrossed ==
  [][\A c \in Calls :
       LET N == Len(enr[c].activeMembers)
           E == enr[c].errorCount
       IN /\ (enr[c].pc = "loop" /\ enr'[c].pc \notin {"loop", "raiderio"})
             => /\ enr'[c].pc \in {"notifyErrors", "idle"}
                /\ enr'[c].pc = "notifyErrors" <=> (E > 5 \/ 10 * E > N)
          /\ (enr[c].pc # "notifyErrors" /\ enr'[c].pc = "notifyErrors")
             => enr[c].pc = "loop"
          /\ (enr[c].pc = "notifyErrors" /\ enr'[c] # enr[c])
             => enr'[c].pc = "idle"]_vars

\* The alert is being sent for a run with more than 5 errors that are not
\* more than 10% of its batch.
AlertOnCountAlone ==
  \E c \in Calls :
    /\ enr[c].pc = "notifyErrors"
    /\ enr[c].errorCount > 5
    /\ 10 * enr[c].errorCount <= Len(enr[c].activeMembers)

\* C21: not-found failures do not count towards the alert thresholds: a run
\* all of whose member failures are not-found sends no batch error alert.
NotFoundNeverAlerts ==
  [][\A c \in Calls :
       (enr[c].pc = "loop" /\ enr'[c].pc = "notifyErrors") =>
         \E k \in DOMAIN enr[c].recentErrors :
           enr[c].recentErrors[k].message # "not found"]_vars

\* C22: notifications are fire-and-forget: once the batch error alert of an
\* Enrichment run is being sent, the run finishes and the tier returns to
\* idle whether or not the send ever completes.
NotificationNeverBlocks ==
  (\E c \in Calls : enr[c].pc = "notifyErrors") ~> ~isActiveSyncRunning

\* C23: after stop() neither tier starts a new per-member fetch: no
\* Enrichment profile request of a next member and no Discovery last-login
\* request is started while the service is stopping.
NoNewFetchAfterStop ==
  [][proc = "stopping" =>
       \A c \in Calls :
         /\ ~(enr[c].pc = "loop" /\ enr'[c].pc = "raiderio")
         /\ ~(disc'[c].pc = "checkActivity" /\ disc'[c] # disc[c])]_vars

\* C24: graceful drain: when shutdown is requested while a member's fetch
\* is in flight, the process does not exit before that fetch has finished
\* (or failed) and its result has been stored.
ExitOnlyAfterDrain ==
  [][(proc # "exited" /\ proc' = "exited") =>
       \A c \in Calls :
         enr[c].pc \notin {"raiderio", "blizzard", "blizzardExtras",
                           "upsert"}]_vars

\* C25: when a request fails with an authentication failure the cached
\* token is invalidated and the request is retried with a fresh token, and
\* no later request carries a token that was answered with 401.
AuthFailureRefreshesToken ==
  [][\A t \in Tiers :
       /\ (api.pc[t] = "request" /\ api'.pc[t] # "request"
           /\ api.token[t] \notin api.valid)
          => /\ api'.blizzardToken # api.token[t]
             /\ api'.pc[t] = "getToken"
       /\ (api.pc[t] # "request" /\ api'.pc[t] = "request")
          => api'.token[t] \notin api.rejected]_vars

\* C26: no in-cycle retry: within one Enrichment run the members of the
\* batch are distinct, the fetch of member i starts from the loop head only,
\* and whenever the processing of member i ends, in success or in failure,
\* the loop moves on to member i + 1, so each member is processed at most
\* once per run.
NoInCycleRetry ==
  [][\A c \in Calls :
       LET Processing == {"raiderio", "blizzard", "blizzardExtras", "upsert"}
       IN /\ \A j, k \in DOMAIN enr'[c].activeMembers :
               j # k => enr'[c].activeMembers[j] # enr'[c].activeMembers[k]
          /\ (enr[c].pc \notin Processing /\ enr'[c].pc \in Processing)
             => /\ enr[c].pc = "loop" /\ enr'[c].pc = "raiderio"
                /\ enr'[c].i = enr[c].i
          /\ (enr[c].pc \in Processing /\ enr'[c].pc \in Processing)
             => enr'[c].i = enr[c].i
          /\ (enr[c].pc \in Processing /\ enr'[c].pc \notin Processing)
             => /\ enr'[c].pc = "loop"
                /\ enr'[c].i = enr[c].i + 1]_vars

\* The first member of a batch has failed and the fetch of the second one
\* is under way.
SecondFetchedAfterFailedFirst ==
  \E c \in Calls :
    /\ enr[c].pc = "raiderio" /\ enr[c].i = 2
    /\ enr[c].errorCount = 1

\* C27: two consecutive requests to the Blizzard API are at least the
\* configured interval (1500 ms) apart, the requests made for one member and
\* those of the two tiers when they overlap included.
RequestsKeepMinInterval ==
  [][(api'.sent # api.sent /\ api.lastRequest # NULL)
       => api'.clock - api.lastRequest >= BlizzardInterval]_vars

\* C28: at any time at most one request is in flight to each provider:
\* to Raider.IO (the profile request of an Enrichment run) and to the
\* Blizzard API (the roster and last-login requests of a Discovery cycle,
\* the profile and rating requests of an Enrichment run).
OneRequestPerProvider ==
  /\ Cardinality({c \in Calls : enr[c].pc = "raiderio"}) <= 1
  /\ Cardinality({c \in Calls : disc[c].pc \in {"getMembers", "checkActivity"}})
     + Cardinality({c \in Calls : enr[c].pc \in {"blizzard", "blizzardExtras"}})
     <= 1

\* C29: every per-character request for a roster member goes to the URL
\* the roster supplied for that character (character.key.href), never to a
\* URL rebuilt from name and realm.
RequestsUseRosterHandle ==
  api.request.built # "none" =>
    /\ api.request.built = "href"
    /\ api.request.url = api.member.character_api_url

\* The calls of tier t that have a member's fetch in flight.
Fetching(t) == {c \in Calls : api.run[t][c].pc = "fetch"}

\* C30: within a tier at most one member's fetch is in flight at any time,
\* and the fetch of member i+1 starts only when the processing of member i
\* has finished and the inter-member delay has elapsed since.
MembersInSequence ==
  [][\A t \in Tiers :
       /\ Cardinality(Fetching(t))' <= 1
       /\ \A c \in Calls :
            (api.run[t][c].pc' = "fetch" /\ api.run[t][c].i' > 1
               /\ api.run[t][c].i' # api.run[t][c].i) =>
              /\ Fetching(t) = {}
              /\ api.run[t][c].pc = "delay"
              /\ api.run[t][c].i' = api.run[t][c].i + 1
              /\ api.clock' >= api.run[t][c].done + LoopDelay(t)]_vars

\* Both tiers are fetching their second member.
SecondMemberFetchedAfterDelay ==
  \A t \in Tiers :
    \E c \in Calls :
      /\ api.run[t][c].pc = "fetch" /\ api.run[t][c].i = 2
      /\ api.clock >= api.run[t][c].done + LoopDelay(t)

\* The member identities a Discovery call is writing: the upserts that
\* members.map started and that have not settled, the updates that
\* bulkUpdateActivityStatus started and that have not settled, and the rows
\* the deleteMany of removeDepartedMembers is deleting.
DiscoveryWrites(c) ==
  CASE disc[c].pc = "upsert" ->
         {[name |-> disc[c].members[k].name, realm |-> disc[c].members[k].realm] :
            k \in disc[c].pending}
    [] disc[c].pc = "updateActivity" ->
         {[name |-> disc[c].results[k].character_name,
           realm |-> disc[c].results[k].realm] :
            k \in disc[c].i..Len(disc[c].results)}
    [] disc[c].pc = "removeDepartedMembers" ->
         {Key(r) : r \in {q \in db : q.character_name \in disc[c].departed}}
    [] OTHER -> {}

\* The member identity an Enrichment call is writing: the awaited upsert of
\* the member at hand.
EnrichmentWrites(c) ==
  IF enr[c].pc = "upsert"
  THEN {[name |-> enr[c].activeMembers[enr[c].i].name,
         realm |-> enr[c].activeMembers[enr[c].i].realm]}
  ELSE {}

\* C31: no two writes to the row of the same member identity are in
\* progress at the same time, whatever the interleaving of Discovery and
\* Enrichment runs.
NoConcurrentWritesToSameMember ==
  /\ \A c, b \in Calls :
       c # b => /\ DiscoveryWrites(c) \cap DiscoveryWrites(b) = {}
                /\ EnrichmentWrites(c) \cap EnrichmentWrites(b) = {}
  /\ \A c, b \in Calls : DiscoveryWrites(c) \cap EnrichmentWrites(b) = {}

\* The member identities that have a row.
StoredIdentities(table) == {Key(r) : r \in table}

\* C32: an Enrichment run never creates a member row: no step of an
\* Enrichment call adds an identity to the table, also when an overlapping
\* Discovery deleted the member as departed after it was selected.
EnrichmentNeverCreatesRow ==
  [][enr' # enr => StoredIdentities(db') \subseteq StoredIdentities(db)]_vars

\* C33: in 'auto' mode a member fetch that returned used the secondary
\* provider whenever the primary failed or answered with an empty or partly
\* indexed profile, and did not fetch the secondary profile when the primary
\* profile was complete; the fetch fails exactly when both providers failed.
AutoFallsBackOnPrimaryFailure ==
  /\ (api.fetch.pc = "done" /\ api.fetch.primary # "complete") =>
       (api.fetch.secondary = "fetched" /\ api.fetch.data.source = "blizzard")
  /\ (api.fetch.pc = "done" /\ api.fetch.primary = "complete") =>
       api.fetch.secondary = "none"
  /\ api.fetch.pc = "failed" <=>
       (api.fetch.primary = "failed" /\ api.fetch.secondary = "failed")

\* The maximum of a non-empty finite set of numbers.
MaxOf(S) == CHOOSE x \in S : \A y \in S : y <= x

\* C34: the summary rating of a fetched profile is the maximum of the
\* ratings of all the ranked brackets queried (a failed query counting as
\* absent), and the rating of each bracket is kept in the record.
SummaryIsMaxOfBrackets ==
  api.fetch.pc = "done" =>
    LET b == api.fetch.brackets
        data == api.fetch.data
    IN /\ data.current_pvp_rating =
            MaxOf({Rating(b.r2v2), Rating(b.r3v3), Rating(b.rbg),
                   Rating(b.solo)})
       /\ data.pvp_2v2_rating = Rating(b.r2v2)
       /\ data.pvp_3v3_rating = Rating(b.r3v3)
       /\ data.pvp_rbg_rating = Rating(b.rbg)
       /\ data.solo_shuffle_rating = Rating(b.solo)

\* The progress events of the members among the emitted events.
MemberEvents(events) == SelectSeq(events, LAMBDA e : e.status = "syncing")

\* C35: in an Enrichment run a progress event is emitted after each member;
\* the current index of the events goes 1, 2, ... in order up to the number
\* of members (all N of them unless the service was stopped), the error
\* count never decreases and never exceeds the current index, the completion
\* event comes last, after the loop; without a consumer nothing is emitted
\* and the run goes through the members in the same way.
ProgressEventsInOrder ==
  LET sync == api.sync
      progress == MemberEvents(sync.events)
  IN /\ sync.io =>
          /\ Len(progress) = sync.i
          /\ \A j \in 1..Len(progress) :
               /\ progress[j].current = j
               /\ progress[j].errors <= j
               /\ j > 1 => progress[j - 1].errors <= progress[j].errors
          /\ \A j \in 1..Len(sync.events) :
               sync.events[j].type = "syncComplete" <=>
                 (sync.pc = "finished" /\ j = Len(sync.events))
          /\ sync.pc = "finished" =>
               /\ sync.events[Len(sync.events)].type = "syncComplete"
               /\ sync.events[Len(sync.events)].errors = sync.errorCount
     /\ ~sync.io => sync.events = <<>>
     /\ sync.errorCount <= sync.i /\ sync.i <= sync.total
     /\ (sync.pc = "finished" /\ isRunning) => sync.i = sync.total

\* A run over two members or more, one of which failed, has finished with
\* a consumer attached: starting, one event per member, complete.
RunReportedToConsumer ==
  /\ api.sync.pc = "finished" /\ api.sync.io
  /\ api.sync.total >= 2 /\ api.sync.i = api.sync.total
  /\ api.sync.errorCount >= 1
  /\ Len(api.sync.events) = api.sync.total + 2

\* The members of the activity check whose update was rejected.
RejectedUpdates ==
  {j \in 1..Len(api.activity.settled) : api.activity.settled[j] = "rejected"}

AtMostMaxEmailsPerWindow ==
  \A w \in MailTimes :
    SumOver(api.mail.sent,
            {t \in MailTimes : w <= t /\ t < w + THROTTLE_DURATION})
      <= MAX_ERRORS_PER_PERIOD

\* C38: a tier whose run has started becomes idle again (its flag is false
\* again) on every path of the run, provided every external call settles;
\* so the tier is never busy forever and a later trigger finds it idle.
EveryRunReturnsToIdle ==
  /\ isGuildDiscoveryRunning ~> ~isGuildDiscoveryRunning
  /\ isActiveSyncRunning ~> ~isActiveSyncRunning

\* Both tiers have run to completion (a profile fetched by Enrichment is
\* stored) and are idle again.
TiersIdleAfterRuns ==
  /\ runsStarted["discovery"] >= 1 /\ runsStarted["enrichment"] >= 1
  /\ ~isGuildDiscoveryRunning /\ ~isActiveSyncRunning
  /\ \A c \in Calls : disc[c].pc = "idle" /\ enr[c].pc = "idle"
  /\ \E r \in db : r.item_level # NULL

\* C39: when the roster fetch succeeds with an empty member list the
\* Discovery cycle ends there: the call returns through the finally block
\* without deleting, upserting or updating a row and without the critical
\* notification.
EmptyRosterSkipsCycle ==
  [][\A c \in Calls :
       (disc[c].pc = "getMembers" /\ disc'[c].pc # "getMembers"
          /\ disc'[c].pc # "notifyCritical" /\ lastRoster' = {}) =>
         /\ disc'[c] = IdleDiscovery
         /\ db' = db
         /\ ~isGuildDiscoveryRunning']_vars

\* A Discovery cycle over a stored roster got an empty roster and has
\* returned; the rows are still there.
EmptyRosterOverStoredMembers ==
  /\ lastRoster = {} /\ prevRoster # {}
  /\ db # {}
  /\ \A c \in Calls : disc[c].pc = "idle"
  /\ runsStarted["discovery"] >= 2

\* The roster members of a Discovery call whose upsert has settled.
UpsertedMembers(c) ==
  {k \in DOMAIN disc[c].members :
     disc[c].pc # "upsert" \/ k \notin disc[c].pending}

====
